---- MODULE Spec2Model ----
(***************************************************************************)
(* A model of the OpenAPI schema-to-type translator of tools-build-api:    *)
(* the tag filter, the key sanitizer, the two dialect translators          *)
(* (ParseSchemas for V3, ParseSchemasV2 for V2), the override merge and    *)
(* the declaration generator.                                              *)
(*                                                                         *)
(* Strings are TLA+ strings; a character is a string of length one.        *)
(* Template strings are built with \o exactly as the source builds them    *)
(* with + and template literals; "\n" is the line feed.                    *)
(***************************************************************************)
EXTENDS Integers, Sequences, FiniteSets, TLC

VARIABLES
    ps,         \* the translator instance of generate (ParseSchemas[V2])
    pc,         \* where generate is: "parsing" (the loop of parsePaths),
                \* "awaiting" (the promise of parsePaths is pending),
                \* "parsed", "generated", "failed"; "idle" when unused
    cursor,     \* the (url, key) pair the loop of parsePaths is at
    tasks,      \* the override calls started by mergeManualTypes
    files,      \* what generate handed to the writer, in order
    input,      \* the arguments of the pure function under check
    output,     \* what it returned
    phase,      \* "idle" | "ready" | "returned"
    docs,       \* options.docs of buildApi, each with where its task is
    process,    \* the process buildApi runs in: "running" | "exited"
    unhandledRejections
                \* what the runtime does with a rejected promise nobody
                \* handles: "throw" (the process exits) | "warn"

fnVars == <<input, output, phase>>

genVars == <<ps, pc, cursor, tasks, files>>

buildVars == <<docs, process, unhandledRejections>>

vars == <<ps, pc, cursor, tasks, files, input, output, phase,
          docs, process, unhandledRejections>>

\* the variables of the part of the program a specification leaves out
IdleFn == input = "" /\ output = "" /\ phase = "idle"

IdleGen == ps = <<>> /\ pc = "idle" /\ cursor = 0 /\ tasks = <<>> /\ files = <<>>

IdleBuild == docs = <<>> /\ process = "idle" /\ unhandledRejections = "idle"

----------------------------------------------------------------------------
(* Characters and strings                                                  *)

LOWER == "abcdefghijklmnopqrstuvwxyz"
UPPER == "ABCDEFGHIJKLMNOPQRSTUVWXYZ"
DIGITS == "0123456789"

CharAt(s, i) == SubSeq(s, i, i)
Chars(s) == {CharAt(s, i) : i \in 1..Len(s)}
LowerSet == Chars(LOWER)
UpperSet == Chars(UPPER)
DigitSet == Chars(DIGITS)
LetterSet == LowerSet \cup UpperSet

IndexIn(c, s) == CHOOSE i \in 1..Len(s) : CharAt(s, i) = c
upperChar(c) == IF c \in LowerSet THEN CharAt(UPPER, IndexIn(c, LOWER)) ELSE c
lowerChar(c) == IF c \in UpperSet THEN CharAt(LOWER, IndexIn(c, UPPER)) ELSE c

Rest(s) == SubSeq(s, 2, Len(s))
startsWith(s, p) == Len(s) >= Len(p) /\ SubSeq(s, 1, Len(p)) = p
endsWith(s, p) == Len(s) >= Len(p) /\ SubSeq(s, Len(s) - Len(p) + 1, Len(s)) = p

\* String.prototype.toUpperCase / toLowerCase on the letters a-z, A-Z.
RECURSIVE toUpperCase(_)
toUpperCase(s) ==
    IF s = "" THEN "" ELSE upperChar(CharAt(s, 1)) \o toUpperCase(Rest(s))

RECURSIVE toLowerCase(_)
toLowerCase(s) ==
    IF s = "" THEN "" ELSE lowerChar(CharAt(s, 1)) \o toLowerCase(Rest(s))

\* Array.prototype.join
RECURSIVE join(_, _)
join(list, sep) ==
    IF Len(list) = 0 THEN ""
    ELSE IF Len(list) = 1 THEN list[1]
    ELSE list[1] \o sep \o join(Tail(list), sep)

\* the concatenation of a list of strings
RECURSIVE concat(_)
concat(list) == IF Len(list) = 0 THEN "" ELSE list[1] \o concat(Tail(list))

\* Array.prototype.indexOf, 0-based, -1 when absent
indexOf(list, x) ==
    IF \E i \in 1..Len(list) : list[i] = x
    THEN (CHOOSE i \in 1..Len(list) :
              list[i] = x /\ \A j \in 1..(i - 1) : list[j] # x) - 1
    ELSE -1

\* An optional array of a configuration: undefined, or an array.
Undefined == [set |-> FALSE, list |-> <<>>]
Some(l) == [set |-> TRUE, list |-> l]

\* All sequences over S of length lo..hi
SeqsOf(S, lo, hi) == UNION {[1..n -> S] : n \in lo..hi}

----------------------------------------------------------------------------
(* Tag filter: src/build-api/tag-validator.ts                              *)

upperCase_identity(tag) == tag

upperCase(tag) == toUpperCase(tag)

\* constructor(config): the two lists, uppercased, or undefined
TagValidator(config) ==
    [_include |-> IF config.include.set
                  THEN Some([i \in 1..Len(config.include.list) |->
                                 upperCase(config.include.list[i])])
                  ELSE Undefined,
     _exclude |-> IF config.exclude.set
                  THEN Some([i \in 1..Len(config.exclude.list) |->
                                 upperCase(config.exclude.list[i])])
                  ELSE Undefined]

\* validate(tag): an array, even an empty one, is truthy in `_include && ...`
validate(this, tag) ==
    LET t == upperCase(tag) IN
    IF this._include.set /\ indexOf(this._include.list, t) < 0 THEN FALSE
    ELSE IF this._exclude.set /\ indexOf(this._exclude.list, t) >= 0 THEN FALSE
    ELSE TRUE

----------------------------------------------------------------------------
(* Key sanitizer: src/build-api/utils.ts                                   *)

\* \w of a JavaScript regular expression
IsWordChar(c) == c \in LetterSet \/ c \in DigitSet \/ c = "_"

\* /^[a-zA-Z$_](\w|_$)+$/.test(key): a first character, then ONE OR MORE
\* word characters (the alternative _$ is a word character too)
IdentifierPattern(key) ==
    /\ Len(key) >= 2
    /\ CharAt(key, 1) \in LetterSet \cup {"$", "_"}
    /\ \A i \in 2..Len(key) : IsWordChar(CharAt(key, i))

toSafePropKey(key) ==
    IF IdentifierPattern(key) THEN key ELSE "'" \o key \o "'"

\* comment.replace(/\n/g, ' ')
RECURSIVE flattenNewlines(_)
flattenNewlines(s) ==
    IF s = "" THEN ""
    ELSE (IF CharAt(s, 1) = "\n" THEN " " ELSE CharAt(s, 1))
             \o flattenNewlines(Rest(s))

joinComment(comment) ==
    IF comment # "" THEN " // " \o flattenNewlines(comment) ELSE ""

----------------------------------------------------------------------------
(* change-case's pascalCase, on ASCII: the input is split into words at    *)
(* every run of non-alphanumeric characters, between a lower-case letter   *)
(* or digit and an upper-case letter, and between an upper-case letter and *)
(* an upper-case letter followed by a lower-case one; each word is         *)
(* capitalised (a later word that starts with a digit gets "_" in front).  *)

IsAlnum(c) == c \in LetterSet \/ c \in DigitSet

\* whether a word boundary lies between s[i-1] and s[i]
WordBreak(s, i) ==
    /\ i > 1
    /\ IsAlnum(CharAt(s, i - 1))
    /\ \/ (CharAt(s, i - 1) \in LowerSet \cup DigitSet) /\ CharAt(s, i) \in UpperSet
       \/ /\ CharAt(s, i - 1) \in UpperSet
          /\ CharAt(s, i) \in UpperSet
          /\ i < Len(s)
          /\ CharAt(s, i + 1) \in LowerSet

\* the words of s from position i on; cur is the word being read
RECURSIVE splitWords(_, _, _)
splitWords(s, i, cur) ==
    IF i > Len(s) THEN (IF cur = "" THEN <<>> ELSE <<cur>>)
    ELSE IF ~IsAlnum(CharAt(s, i))
         THEN (IF cur = "" THEN <<>> ELSE <<cur>>) \o splitWords(s, i + 1, "")
    ELSE IF WordBreak(s, i) /\ cur # ""
         THEN <<cur>> \o splitWords(s, i + 1, CharAt(s, i))
    ELSE splitWords(s, i + 1, cur \o CharAt(s, i))

pascalCaseTransform(word, index) ==
    IF index > 1 /\ CharAt(word, 1) \in DigitSet
    THEN "_" \o CharAt(word, 1) \o toLowerCase(Rest(word))
    ELSE upperChar(CharAt(word, 1)) \o toLowerCase(Rest(word))

pascalCase(s) ==
    LET words == splitWords(s, 1, "") IN
    concat([i \in 1..Len(words) |-> pascalCaseTransform(words[i], i)])

----------------------------------------------------------------------------
(* The document                                                            *)
(*                                                                         *)
(* A schema node is a record of the fields the translators read; `has`     *)
(* names the optional fields that are present (an empty array is present   *)
(* and truthy in JavaScript).  `nil` marks undefined/null.                 *)

Empty ==
    [nil |-> FALSE, ref |-> "", type |-> "", typeList |-> <<>>, has |-> {},
     enum |-> <<>>, items |-> <<>>, properties |-> <<>>, additional |-> <<>>,
     allOf |-> <<>>, oneOf |-> <<>>, anyOf |-> <<>>,
     description |-> "", deprecated |-> FALSE]

Null == [Empty EXCEPT !.nil = TRUE]

Ref(path) == [Empty EXCEPT !.ref = path]
Prim(t) == [Empty EXCEPT !.type = t]
Enum(values) == [Empty EXCEPT !.type = "string", !.enum = values, !.has = {"enum"}]
Arr(item) == [Empty EXCEPT !.type = "array", !.items = <<item>>, !.has = {"items"}]
ArrOfList(list) ==
    [Empty EXCEPT !.type = "array", !.items = list, !.has = {"itemsList"}]
Obj(props) ==
    [Empty EXCEPT !.type = "object", !.properties = props, !.has = {"properties"}]
Prop(k, v) == [key |-> k, value |-> v]
AllOf(ms) == [Empty EXCEPT !.allOf = ms, !.has = {"allOf"}]
OneOf(ms) == [Empty EXCEPT !.oneOf = ms, !.has = {"oneOf"}]
AnyOf(ms) == [Empty EXCEPT !.anyOf = ms, !.has = {"anyOf"}]
WithAdditional(node, a) ==
    [node EXCEPT !.additional = <<a>>, !.has = @ \cup {"additional"}]
WithAdditionalTrue(node) == [node EXCEPT !.has = @ \cup {"additionalTrue"}]
Described(node, text) == [node EXCEPT !.description = text]
Deprecated(node) == [node EXCEPT !.deprecated = TRUE]

\* doc.components.schemas[name] (V3) / doc.definitions[name] (V2):
\* doc.schemas is the map, as a sequence of [name, node] with distinct names
SchemaOf(doc, name) ==
    IF \E i \in 1..Len(doc.schemas) : doc.schemas[i].name = name
    THEN doc.schemas[CHOOSE i \in 1..Len(doc.schemas) :
                         doc.schemas[i].name = name].node
    ELSE Null

----------------------------------------------------------------------------
(* The translator instance (ParseSchemas / ParseSchemasV2): its fields,    *)
(* and the fields of the run itself: `threw` (an exception is unwinding    *)
(* the call stack), `overflow` (that exception is the call stack's limit), *)
(* `stack` (the refSchema calls that are active), `entered` (the schema    *)
(* bodies translated so far, in order, each [name, seen]: seen is          *)
(* this.refs[typeName] at the call that translates the body) and           *)
(* `resolved` (the [name, typeName] of every parseRef call, in order).     *)
(* typesTemplate and interfacesTemplate are kept as the sequence of the    *)
(* strings appended with +=; the field's value is their concatenation.     *)

MaxStack == 4

NewParser(doc, config) ==
    [doc |-> doc, config |-> config, tags |-> <<>>, refs |-> {},
     typesTemplate |-> <<>>, interfacesTemplate |-> <<>>,
     _tagValidator |-> TagValidator(config),
     threw |-> FALSE, overflow |-> FALSE, stack |-> <<>>, entered |-> <<>>,
     resolved |-> <<>>]

Ret(this, out) == [ps |-> this, out |-> out]
Throw(this) == [ps |-> [this EXCEPT !.threw = TRUE], out |-> ""]
\* `r` then `k`: the statement after a call runs on what the call left and
\* returned, unless the call threw
Then(r, k(_, _)) == IF r.ps.threw THEN Throw(r.ps) ELSE k(r.ps, r.out)

\* a call for its effect on the instance, then `return out`
Returning(after, out) == IF after.threw THEN Throw(after) ELSE Ret(after, out)

AppendStr(buffer, s) == IF s = "" THEN buffer ELSE Append(buffer, s)

isRef(obj) == ~obj.nil /\ obj.ref # ""

isInterface(obj) == ~obj.nil /\ obj.typeList = <<>> /\ obj.type = "object"

\* config.propKeyReplacer: "none", or the name of a replacer
propKeyReplacer(config, key, from) ==
    IF config.propKeyReplacer = "prefixByContext" THEN from \o "_" \o key
    ELSE key

safePropKey(this, key, from) ==
    toSafePropKey(propKeyReplacer(this.config, key, from))

\* refItem.$ref.split('/').pop()
RECURSIVE getRefName(_)
getRefName(path) ==
    IF \E i \in 1..Len(path) : CharAt(path, i) = "/"
    THEN getRefName(SubSeq(path,
                           1 + (CHOOSE i \in 1..Len(path) : CharAt(path, i) = "/"),
                           Len(path)))
    ELSE path

\* name.replace(/^api\./i, '')
stripApiPrefix(name) ==
    IF Len(name) >= 4 /\ toLowerCase(SubSeq(name, 1, 4)) = "api."
    THEN SubSeq(name, 5, Len(name))
    ELSE name

formatSchemaName(name) == pascalCase(stripApiPrefix(name))

\* The source's marker reads "/** @deprecated <two Chinese words> */"; the
\* words (non-ASCII) are left out of the model's string.
DeprecatedMark == "/** @deprecated */"

getSchemaItemComment(schemaItem) ==
    IF isRef(schemaItem) THEN ""
    ELSE (IF schemaItem.description # ""
          THEN "\n/** " \o schemaItem.description \o " */" ELSE "")
         \o (IF schemaItem.deprecated THEN "\n" \o DeprecatedMark ELSE "")

\* /[|&]/.test(t)
hasUnionOrIntersection(t) ==
    \E i \in 1..Len(t) : CharAt(t, i) \in {"|", "&"}

\* t.replace(/\n$/, '')
stripFinalNewline(t) ==
    IF endsWith(t, "\n") THEN SubSeq(t, 1, Len(t) - 1) ELSE t

\* schemaItem.allOf || schemaItem.oneOf || schemaItem.anyOf
combineSchemas(schemaItem) ==
    IF "allOf" \in schemaItem.has THEN schemaItem.allOf
    ELSE IF "oneOf" \in schemaItem.has THEN schemaItem.oneOf
    ELSE schemaItem.anyOf

hasCombineSchemas(schemaItem) ==
    schemaItem.has \cap {"allOf", "oneOf", "anyOf"} # {}

\* the last return of parseSchemaItem: the literal type name(s), or ""
literalType(schemaItem) ==
    IF schemaItem.typeList # <<>> THEN join(schemaItem.typeList, " | ")
    ELSE schemaItem.type

RECURSIVE parseSchemaItemOf(_, _)
RECURSIVE parseSchemaItem(_, _)
RECURSIVE parseSchemaItemV2(_, _)
RECURSIVE parseAll(_, _)
RECURSIVE parseRef(_, _)
RECURSIVE refSchema(_, _, _)
RECURSIVE parseSchemaItemObject(_, _)
RECURSIVE objectLoop(_, _, _, _)
RECURSIVE parseSchemaItemAdditional(_, _)
RECURSIVE parseSchemaItemAdditionalV2(_, _)

\* list.map((item) => this.parseSchemaItem(item)): the translations, in order
parseAll(this, list) ==
    IF Len(list) = 0 THEN Ret(this, <<>>)
    ELSE Then(parseSchemaItemOf(this, list[1]), LAMBDA ps1, type :
         Then(parseAll(ps1, Tail(list)), LAMBDA ps2, types :
         Ret(ps2, <<type>> \o types)))

\* refSchema at `this.parseSchemaItem(schemaItem)`: the call is entered
enterBody(this, schemaName, typeName) ==
    [this EXCEPT !.stack = Append(@, typeName),
                 !.entered = Append(@, [name |-> schemaName,
                                        seen |-> typeName \in this.refs])]

\* the end of refSchema, r being what this.parseSchemaItem(schemaItem)
\* left and returned: the comment and the declaration are appended
appendDeclaration(r, schemaItem, typeName) ==
    IF r.ps.threw THEN r.ps
    ELSE IF isInterface(schemaItem)
    THEN [r.ps EXCEPT
              !.stack = SubSeq(@, 1, Len(@) - 1),
              !.interfacesTemplate =
                  Append(AppendStr(@, getSchemaItemComment(schemaItem)),
                         "\ninterface " \o typeName \o " " \o r.out)]
    ELSE [r.ps EXCEPT
              !.stack = SubSeq(@, 1, Len(@) - 1),
              !.interfacesTemplate =
                  AppendStr(@, getSchemaItemComment(schemaItem)),
              !.typesTemplate =
                  Append(@, "\ntype " \o typeName \o " = " \o r.out)]

\* refSchema without the `if (this.refs[typeName]) return` guard
refSchema_noGuard(this, schemaName, typeName) ==
    IF SchemaOf(this.doc, schemaName).nil THEN this
    ELSE IF Len(this.stack) >= MaxStack
    THEN [this EXCEPT !.threw = TRUE, !.overflow = TRUE]
    ELSE appendDeclaration(
             parseSchemaItemOf(
                 enterBody([this EXCEPT !.refs = @ \cup {typeName}],
                           schemaName, typeName),
                 SchemaOf(this.doc, schemaName)),
             SchemaOf(this.doc, schemaName), typeName)

\* refSchema with `this.refs[typeName] = true` moved after the translation
refSchema_markAfter(this, schemaName, typeName) ==
    IF SchemaOf(this.doc, schemaName).nil THEN this
    ELSE IF typeName \in this.refs THEN this
    ELSE IF Len(this.stack) >= MaxStack
    THEN [this EXCEPT !.threw = TRUE, !.overflow = TRUE]
    ELSE [appendDeclaration(
              parseSchemaItemOf(enterBody(this, schemaName, typeName),
                                SchemaOf(this.doc, schemaName)),
              SchemaOf(this.doc, schemaName), typeName)
          EXCEPT !.refs = @ \cup {typeName}]

\* refSchema declaring a name that the schema map does not hold as `any`
refSchema_declareMissing(this, schemaName, typeName) ==
    IF typeName \in this.refs THEN this
    ELSE IF SchemaOf(this.doc, schemaName).nil
    THEN [this EXCEPT !.refs = @ \cup {typeName},
                      !.typesTemplate =
                          Append(@, "\ntype " \o typeName \o " = any")]
    ELSE IF Len(this.stack) >= MaxStack
    THEN [this EXCEPT !.threw = TRUE, !.overflow = TRUE]
    ELSE appendDeclaration(
             parseSchemaItemOf(
                 enterBody([this EXCEPT !.refs = @ \cup {typeName}],
                           schemaName, typeName),
                 SchemaOf(this.doc, schemaName)),
             SchemaOf(this.doc, schemaName), typeName)

\* refSchema that registers the name before it looks the schema up
refSchema_registerMissing(this, schemaName, typeName) ==
    IF typeName \in this.refs THEN this
    ELSE IF SchemaOf(this.doc, schemaName).nil
    THEN [this EXCEPT !.refs = @ \cup {typeName}]
    ELSE IF Len(this.stack) >= MaxStack
    THEN [this EXCEPT !.threw = TRUE, !.overflow = TRUE]
    ELSE appendDeclaration(
             parseSchemaItemOf(
                 enterBody([this EXCEPT !.refs = @ \cup {typeName}],
                           schemaName, typeName),
                 SchemaOf(this.doc, schemaName)),
             SchemaOf(this.doc, schemaName), typeName)

\* refSchema(schemaName, typeName): the instance after the call.  A call
\* stack deeper than MaxStack ends as JavaScript ends it, by throwing.
refSchema(this, schemaName, typeName) ==
    IF SchemaOf(this.doc, schemaName).nil THEN this
    ELSE IF typeName \in this.refs THEN this
    ELSE IF Len(this.stack) >= MaxStack
    THEN [this EXCEPT !.threw = TRUE, !.overflow = TRUE]
    ELSE appendDeclaration(
             parseSchemaItemOf(
                 enterBody([this EXCEPT !.refs = @ \cup {typeName}],
                           schemaName, typeName),
                 SchemaOf(this.doc, schemaName)),
             SchemaOf(this.doc, schemaName), typeName)

\* parseRef, from `this.refSchema(name, typeName)` on
resolveRef(this, name, typeName) ==
    Returning(refSchema([this EXCEPT !.resolved =
                             Append(@, [name |-> name, typeName |-> typeName])],
                        name, typeName),
              typeName)

\* parseRef(refItem), refItem given by its $ref string
parseRef(this, ref) ==
    resolveRef(this, getRefName(ref), formatSchemaName(getRefName(ref)))

\* one line of parseSchemaItemObject: a property and its translation
propLine(this, prop, type) ==
    IF isRef(prop.value)
    THEN "  " \o safePropKey(this, prop.key, "schema") \o ": " \o type
    ELSE (IF prop.value.deprecated THEN DeprecatedMark \o "\n" ELSE "")
         \o "  " \o safePropKey(this, prop.key, "schema") \o ": " \o type
         \o joinComment(prop.value.description)

\* the for..in loop of parseSchemaItemObject, from property i on
objectLoop(this, props, i, template) ==
    IF i > Len(props) THEN Ret(this, template \o "}\n")
    ELSE Then(parseSchemaItemOf(this, props[i].value), LAMBDA ps1, type :
         objectLoop(ps1, props, i + 1,
                    template \o propLine(this, props[i], type) \o "\n"))

parseSchemaItemObject(this, schemaItem) ==
    objectLoop(this, schemaItem.properties, 1, "{\n")

\* V3: ' & ' and the index signature, or the whole translation of the node
parseSchemaItemAdditional(this, schemaItem) ==
    IF "additionalTrue" \in schemaItem.has
    THEN Ret(this, " & " \o "{[P:string]: any}")
    ELSE IF "additional" \in schemaItem.has
    THEN Then(parseSchemaItemOf(this, schemaItem.additional[1]),
              LAMBDA ps1, type : Ret(ps1, " & " \o type))
    ELSE Ret(this, "")

\* the names a schema node is read by, when they occur as property names
PropertyNamed(props, k) == \E i \in 1..Len(props) : props[i].key = k

\* V2: this.parseSchemaItem(additional.properties) hands the MAP of the
\* properties to parseSchemaItem, which reads it as one schema node: a map
\* with a property named $ref, allOf, oneOf or anyOf makes it throw (no
\* split/map on a schema object), one named type comes back as that object
\* ("[object Object]" once concatenated), any other map has no type: "".
parseSchemaItemAdditionalV2(this, schemaItem) ==
    IF "additionalTrue" \in schemaItem.has
    THEN Ret(this, " & {[P:string]: any}")
    ELSE IF "additional" \in schemaItem.has
            /\ "properties" \in schemaItem.additional[1].has
    THEN IF \E k \in {"$ref", "allOf", "oneOf", "anyOf"} :
                PropertyNamed(schemaItem.additional[1].properties, k)
         THEN Throw(this)
         ELSE IF PropertyNamed(schemaItem.additional[1].properties, "type")
         THEN Ret(this, " & " \o "[object Object]")
         ELSE Ret(this, " & " \o "")
    ELSE Ret(this, "")

\* return combineType && `(${combineType}) | null`
nullable(combineType) ==
    IF combineType = "" THEN "" ELSE "(" \o combineType \o ") | null"

\* the end of the allOf/oneOf/anyOf case joining every node as a union
combineTypeOf_alwaysUnion(schemaItem, types) ==
    nullable(join(types, " | "))

\* the end of the allOf/oneOf/anyOf case: the members joined
combineTypeOf(schemaItem, types) ==
    nullable(join(types, IF "allOf" \in schemaItem.has THEN " & " ELSE " | "))

\* ParseSchemas.parseSchemaItem (V3)
parseSchemaItem(this, schemaItem) ==
    IF isRef(schemaItem) THEN parseRef(this, schemaItem.ref)
    ELSE IF schemaItem.nil THEN Throw(this)  \* undefined.allOf: a TypeError
    ELSE IF hasCombineSchemas(schemaItem)
    THEN Then(parseAll(this, combineSchemas(schemaItem)), LAMBDA ps1, types :
              Ret(ps1, combineTypeOf(schemaItem, types)))
    ELSE IF schemaItem.typeList # <<>> THEN Ret(this, literalType(schemaItem))
    ELSE IF schemaItem.type = "integer" THEN Ret(this, "number")
    ELSE IF schemaItem.type = "string"
    THEN (IF "enum" \in schemaItem.has
          THEN Ret(this, "'" \o join(schemaItem.enum, "' | '") \o "'")
          ELSE Ret(this, "string"))
    ELSE IF schemaItem.type = "array"
    THEN \* items that is an array is read as a node with no field set
         Then(parseSchemaItemOf(this,
                  IF "items" \in schemaItem.has THEN schemaItem.items[1]
                  ELSE IF "itemsList" \in schemaItem.has THEN Empty
                  ELSE Null),
              LAMBDA ps1, type : Ret(ps1, type \o "[]"))
    ELSE IF schemaItem.type = "object"
    THEN Then(parseSchemaItemObject(this, schemaItem), LAMBDA ps1, object :
         Then(parseSchemaItemAdditional(ps1, schemaItem), LAMBDA ps2, additional :
         Ret(ps2, object \o additional)))
    ELSE Ret(this, literalType(schemaItem))

\* the end of the array case of ParseSchemasV2.parseSchemaItem
arrayTypeV2(t) ==
    (IF hasUnionOrIntersection(t) THEN "(" \o t \o ")" ELSE t) \o "[]"

\* ParseSchemasV2.parseSchemaItem
parseSchemaItemV2(this, schemaItem) ==
    IF schemaItem.nil THEN Ret(this, "")
    ELSE IF isRef(schemaItem) THEN parseRef(this, schemaItem.ref)
    ELSE IF hasCombineSchemas(schemaItem)
    THEN Then(parseAll(this, combineSchemas(schemaItem)), LAMBDA ps1, types :
              Ret(ps1, combineTypeOf(schemaItem, types)))
    ELSE IF schemaItem.typeList # <<>> THEN Ret(this, literalType(schemaItem))
    ELSE IF schemaItem.type = "integer" THEN Ret(this, "number")
    ELSE IF schemaItem.type = "string"
    THEN (IF "enum" \in schemaItem.has
          THEN Ret(this, "'" \o join(schemaItem.enum, "' | '") \o "'")
          ELSE Ret(this, "string"))
    ELSE IF schemaItem.type = "file" THEN Ret(this, "File")
    ELSE IF schemaItem.type = "array"
    THEN (IF "itemsList" \in schemaItem.has
          THEN Then(parseAll(this, schemaItem.items), LAMBDA ps1, types :
                    Ret(ps1, arrayTypeV2(join(types, " | "))))
          ELSE Then(parseSchemaItemOf(this,
                        IF "items" \in schemaItem.has
                        THEN schemaItem.items[1] ELSE Null),
                    LAMBDA ps1, type :
                    Ret(ps1, arrayTypeV2(stripFinalNewline(type)))))
    ELSE IF schemaItem.type = "object"
    THEN Then(parseSchemaItemObject(this, schemaItem), LAMBDA ps1, object :
         Then(parseSchemaItemAdditionalV2(ps1, schemaItem), LAMBDA ps2, additional :
         Ret(ps2, object \o additional)))
    ELSE Ret(this, literalType(schemaItem))

\* this.parseSchemaItem: the method of the instance's class
parseSchemaItemOf(this, schemaItem) ==
    IF this.doc.swagger THEN parseSchemaItemV2(this, schemaItem)
    ELSE parseSchemaItem(this, schemaItem)

----------------------------------------------------------------------------
(* Operations.  An operation is                                            *)
(*   [tags, operationId, description, parameters, requestBody, response]   *)
(* where requestBody (V3) and response (responses['200']) are              *)
(*   [nil, ref, schema]: absent, a $ref, or an object whose schema (V3:    *)
(*   content['application/json'].schema) is `schema` (Null when absent);   *)
(* a parameter is [ref, name, in, description, schema, self]: `self` is    *)
(* the parameter object read as a schema node (its type, enum, items),     *)
(* which V2 falls back to when the parameter has no schema.                *)

NoBody == [nil |-> TRUE, ref |-> "", schema |-> Null]
BodyRef(path) == [nil |-> FALSE, ref |-> path, schema |-> Null]
BodyOf(schema) == [nil |-> FALSE, ref |-> "", schema |-> schema]

Param(name, in, self) ==
    [ref |-> "", name |-> name, in |-> in, description |-> "",
     schema |-> Null, self |-> self]
ParamWithSchema(name, in, schema) ==
    [ref |-> "", name |-> name, in |-> in, description |-> "",
     schema |-> schema, self |-> Empty]
ParamRef(path) ==
    [ref |-> path, name |-> "", in |-> "", description |-> "",
     schema |-> Null, self |-> Empty]

Operation(tags, parameters, requestBody, response) ==
    [tags |-> tags, operationId |-> "", description |-> "",
     parameters |-> parameters, requestBody |-> requestBody,
     response |-> response]

\* one `name: type // comment` line of a parameter record
paramLine(this, paramItem, type) ==
    "  " \o safePropKey(this, paramItem.name, "param") \o ": " \o type
        \o joinComment(paramItem.description) \o "\n"

\* the switch of ParseSchemas.parseParamsSchema without its case 'path'
addParam_queryOnly(acc, paramItem, propType) ==
    IF paramItem.in = "query"
    THEN [acc EXCEPT !.query = (IF @ = "" THEN "{\n" ELSE @) \o propType]
    ELSE acc

\* the switch on paramItem.in of ParseSchemas.parseParamsSchema (V3)
addParam(acc, paramItem, propType) ==
    IF paramItem.in = "path"
    THEN [acc EXCEPT !.path = (IF @ = "" THEN "{\n" ELSE @) \o propType]
    ELSE IF paramItem.in = "query"
    THEN [acc EXCEPT !.query = (IF @ = "" THEN "{\n" ELSE @) \o propType]
    ELSE acc

RECURSIVE paramsLoop(_, _, _, _)
\* the loop of ParseSchemas.parseParamsSchema (V3), from parameter i on
paramsLoop(this, list, i, acc) ==
    IF i > Len(list) THEN Ret(this, acc)
    ELSE IF list[i].ref # "" THEN paramsLoop(this, list, i + 1, acc)
    ELSE Then(parseSchemaItemOf(this, IF list[i].schema.nil THEN Empty
                                      ELSE list[i].schema),
              LAMBDA ps1, type :
              paramsLoop(ps1, list, i + 1,
                         addParam(acc, list[i], paramLine(this, list[i], type))))

\* the closing of the path and query records
closeParams(acc) ==
    [acc EXCEPT !.path = IF @ # "" THEN @ \o "}" ELSE @,
                !.query = IF @ # "" THEN @ \o "}" ELSE @]

\* ParseSchemas.parseParamsSchema (V3): out is [path, query]
parseParamsSchema(this, operationItem) ==
    Then(paramsLoop(this, operationItem.parameters, 1,
                    [path |-> "", query |-> ""]),
         LAMBDA ps1, acc : Ret(ps1, closeParams(acc)))

\* the switch on paramItem.in of ParseSchemasV2.parseParamsSchema, but for
\* the body named root
addParamV2(acc, paramItem, propType) ==
    IF paramItem.in = "path"
    THEN [acc EXCEPT !.path = (IF @ = "" THEN "{\n" ELSE @) \o propType]
    ELSE IF paramItem.in = "query"
    THEN [acc EXCEPT !.query = (IF @ = "" THEN "{\n" ELSE @) \o propType]
    ELSE IF paramItem.in = "formData"
    THEN [acc EXCEPT !.body = (IF @ = "" THEN "{\n" ELSE @) \o propType,
                     !.isFormDataBody = TRUE]
    ELSE acc

\* body += (body && body + ' & ') + this.parseSchemaItem(paramItem.schema)
addRootBody(acc, type) ==
    [acc EXCEPT !.body = @ \o (IF @ # "" THEN @ \o " & " ELSE "") \o type]

RECURSIVE paramsLoopV2(_, _, _, _)
\* the loop of ParseSchemasV2.parseParamsSchema, from parameter i on: the
\* parameter is translated for its line and, when it is the body named
\* root, its schema is translated again for the body
paramsLoopV2(this, list, i, acc) ==
    IF i > Len(list) THEN Ret(this, acc)
    ELSE IF list[i].ref # "" THEN paramsLoopV2(this, list, i + 1, acc)
    ELSE Then(parseSchemaItemOf(this, IF list[i].schema.nil THEN list[i].self
                                      ELSE list[i].schema),
              LAMBDA ps1, type :
              IF list[i].in = "body" /\ list[i].name = "root"
              THEN Then(parseSchemaItemOf(ps1, list[i].schema),
                        LAMBDA ps2, root :
                        paramsLoopV2(ps2, list, i + 1, addRootBody(acc, root)))
              ELSE paramsLoopV2(ps1, list, i + 1,
                       addParamV2(acc, list[i], paramLine(this, list[i], type))))

\* the end of ParseSchemasV2.parseParamsSchema with the FormData wrap
\* applied to every non-empty body
closeParamsV2_wrapAnyBody(acc) ==
    [closeParams(acc) EXCEPT
        !.body = IF acc.body # "" THEN "FormData | " \o @ \o "}" ELSE @,
        !.isFormDataBody = acc.body # ""]

\* the end of ParseSchemasV2.parseParamsSchema
closeParamsV2(acc) ==
    [closeParams(acc) EXCEPT
        !.body = IF acc.isFormDataBody THEN "FormData | " \o @ \o "}" ELSE @]

\* ParseSchemasV2.parseParamsSchema: out is [path, query, body, isFormDataBody]
parseParamsSchemaV2(this, operationItem) ==
    Then(paramsLoopV2(this, operationItem.parameters, 1,
                      [path |-> "", query |-> "", body |-> "",
                       isFormDataBody |-> FALSE]),
         LAMBDA ps1, acc : Ret(ps1, closeParamsV2(acc)))

\* ParseSchemas.parseRequestBodySchema (V3)
parseRequestBodySchema(this, operationItem) ==
    LET body == operationItem.requestBody IN
    IF ~body.nil /\ body.ref # "" THEN parseRef(this, body.ref)
    ELSE parseSchemaItemOf(this, IF body.nil \/ body.schema.nil THEN Empty
                                 ELSE body.schema)

\* parseResponseSchema, of both classes: responses?.['200'], a $ref or
\* the object holding the schema; `schema || {}`
parseResponseSchema(this, operationItem) ==
    LET res == operationItem.response IN
    IF ~res.nil /\ res.ref # "" THEN parseRef(this, res.ref)
    ELSE parseSchemaItemOf(this, IF res.nil \/ res.schema.nil THEN Empty
                                 ELSE res.schema)

----------------------------------------------------------------------------
(* Ad-hoc JSON to type: request-response-type.ts.  A JSON value is a       *)
(* record [t, b, n, s, elems, entries] with t its kind.                    *)

JsonOf(t) ==
    [t |-> t, b |-> FALSE, n |-> 0, s |-> "", elems |-> <<>>, entries |-> <<>>]
JNull == JsonOf("null")
JUndefined == JsonOf("undefined")
JBool(b) == [JsonOf("boolean") EXCEPT !.b = b]
JNum(n) == [JsonOf("number") EXCEPT !.n = n]
JStr(s) == [JsonOf("string") EXCEPT !.s = s]
JArr(elems) == [JsonOf("array") EXCEPT !.elems = elems]
JObj(entries) == [JsonOf("object") EXCEPT !.entries = entries]

\* `if (data)`
truthy(data) ==
    CASE data.t \in {"null", "undefined"} -> FALSE
      [] data.t = "boolean" -> data.b
      [] data.t = "number" -> data.n # 0
      [] data.t = "string" -> data.s # ""
      [] OTHER -> TRUE

RECURSIVE jsonToType(_)
jsonToType(data) ==
    IF truthy(data)
    THEN IF data.t = "array"
         THEN jsonToType(IF data.elems = <<>> THEN JUndefined
                         ELSE data.elems[1]) \o "[]"
         ELSE IF data.t = "object"
         THEN IF data.entries = <<>> THEN "{[P:string]: any}"
              ELSE "{" \o concat([i \in 1..Len(data.entries) |->
                           toSafePropKey(data.entries[i].key) \o ": "
                             \o jsonToType(data.entries[i].value) \o ";"])
                       \o "}"
         ELSE data.t  \* typeof data
    ELSE "any"

----------------------------------------------------------------------------
(* parsePaths.  The document is [swagger, schemas, paths]; paths is the    *)
(* map url -> path item as a sequence of [url, item], an item the sequence *)
(* of its [key, operation] in key order.                                   *)

HttpMethods == {"GET", "PUT", "POST", "DELETE"}

\* pathItemKey.toUpperCase() in HttpMethods
isHttpMethod(pathItemKey) == toUpperCase(pathItemKey) \in HttpMethods

\* the (url, key) pairs in the order the two nested for..in loops meet them
RECURSIVE Entries(_)
Entries(paths) ==
    IF Len(paths) = 0 THEN <<>>
    ELSE [k \in 1..Len(paths[1].item) |->
              [url |-> paths[1].url, key |-> paths[1].item[k].key,
               operation |-> paths[1].item[k].operation]]
         \o Entries(Tail(paths))

\* tags: Record<string, RequestItem[]>, as the sequence of [tag, items] in
\* insertion order
groupIndex(tags, tag) ==
    IF \E g \in 1..Len(tags) : tags[g].tag = tag
    THEN CHOOSE g \in 1..Len(tags) : tags[g].tag = tag
    ELSE 0

\* tags[tag] || (tags[tag] = [])
ensureGroup(tags, tag) ==
    IF groupIndex(tags, tag) # 0 THEN tags
    ELSE Append(tags, [tag |-> tag, items |-> <<>>])

pushItem(tags, tag, item) ==
    [tags EXCEPT ![groupIndex(tags, tag)].items = Append(@, item)]

\* a callback of the configuration, as the finite map it is on the
\* document's urls: unset, or a sequence of [from, to]; identity elsewhere
applyMap(fn, x) ==
    IF \E i \in 1..Len(fn.list) : fn.list[i].from = x
    THEN fn.list[CHOOSE i \in 1..Len(fn.list) : fn.list[i].from = x].to
    ELSE x

urlToName(config, url) ==
    IF config.urlToNameReplacer.set THEN applyMap(config.urlToNameReplacer, url)
    ELSE url

\* operationItem.tags?.[0] || 'main'
firstTag(operationItem) ==
    IF Len(operationItem.tags) > 0 /\ operationItem.tags[1] # ""
    THEN operationItem.tags[1] ELSE "main"

startsWithIgnoreCase(s, p) ==
    Len(s) >= Len(p) /\ toLowerCase(SubSeq(s, 1, Len(p))) = toLowerCase(p)

\* .replace(new RegExp(`(${tag}_)?(${method})?`, 'i'), ''): the first match
\* is at position 0 (both groups are optional), so only a leading `tag_`
\* and then a leading method are removed.  Tags are plain words here.
stripNamePrefix(s, tag, method) ==
    LET s1 == IF startsWithIgnoreCase(s, tag \o "_")
              THEN SubSeq(s, Len(tag) + 2, Len(s)) ELSE s
    IN IF startsWithIgnoreCase(s1, method)
       THEN SubSeq(s1, Len(method) + 1, Len(s1)) ELSE s1

\* the name of the request function in ParseSchemas.parsePaths (V3)
requestName(config, url, method, operationItem) ==
    method \o pascalCase(stripNamePrefix(
                  IF operationItem.operationId # ""
                  THEN operationItem.operationId
                  ELSE urlToName(config, url),
                  firstTag(operationItem), method))

\* requestItems.push(item), unless making the item threw
pushRequestItem(r, tag) ==
    IF r.ps.threw THEN r.ps
    ELSE [r.ps EXCEPT !.tags = pushItem(@, tag, r.out)]

\* parsePaths (V3) creating the group before it asks the tag filter
parseOperation_groupFirst(this, url, pathItemKey, operationItem) ==
    IF ~isHttpMethod(pathItemKey) THEN this
    ELSE IF ~validate(this._tagValidator, firstTag(operationItem))
    THEN [this EXCEPT !.tags = ensureGroup(@, firstTag(operationItem))]
    ELSE pushRequestItem(
           Then(parseParamsSchema(
                    [this EXCEPT !.tags = ensureGroup(@, firstTag(operationItem))],
                    operationItem),
                LAMBDA ps1, paramsSchema :
           Then(parseRequestBodySchema(ps1, operationItem),
                LAMBDA ps2, requestBodyType :
           Then(parseResponseSchema(ps2, operationItem),
                LAMBDA ps3, responseType :
           Ret(ps3,
               [name |-> requestName(this.config, url, pathItemKey, operationItem),
                url |-> url, method |-> pathItemKey,
                description |-> operationItem.description,
                requestPathType |-> paramsSchema.path,
                requestQueryType |-> paramsSchema.query,
                requestBodyType |-> requestBodyType,
                requestBodyTypeIsFormData |-> FALSE,
                responseType |-> responseType])))),
           firstTag(operationItem))

\* one iteration of the inner loop of ParseSchemas.parsePaths (V3)
parseOperation(this, url, pathItemKey, operationItem) ==
    IF ~isHttpMethod(pathItemKey) THEN this
    ELSE IF ~validate(this._tagValidator, firstTag(operationItem)) THEN this
    ELSE pushRequestItem(
           Then(parseParamsSchema(
                    [this EXCEPT !.tags = ensureGroup(@, firstTag(operationItem))],
                    operationItem),
                LAMBDA ps1, paramsSchema :
           Then(parseRequestBodySchema(ps1, operationItem),
                LAMBDA ps2, requestBodyType :
           Then(parseResponseSchema(ps2, operationItem),
                LAMBDA ps3, responseType :
           Ret(ps3,
               [name |-> requestName(this.config, url, pathItemKey, operationItem),
                url |-> url, method |-> pathItemKey,
                description |-> operationItem.description,
                requestPathType |-> paramsSchema.path,
                requestQueryType |-> paramsSchema.query,
                requestBodyType |-> requestBodyType,
                requestBodyTypeIsFormData |-> FALSE,  \* no such field in V3
                responseType |-> responseType])))),
           firstTag(operationItem))

\* config.getTag, as a finite map on (path, method): unset, or a list of
\* [url, method, tag] with a default
getTagOf(config, path, method, operationItem) ==
    IF config.getTag.set
    THEN IF \E i \in 1..Len(config.getTag.list) :
                config.getTag.list[i].url = path
                /\ config.getTag.list[i].method = method
         THEN config.getTag.list[CHOOSE i \in 1..Len(config.getTag.list) :
                  config.getTag.list[i].url = path
                  /\ config.getTag.list[i].method = method].tag
         ELSE config.getTag.default
    ELSE firstTag(operationItem)

\* config.manualTypes?.[url]?.[method]: the overrides [k, t] in key order,
\* <<>> when there is none
manualTypesOf(config, url, method) ==
    IF \E i \in 1..Len(config.manualTypes) :
            config.manualTypes[i].url = url /\ config.manualTypes[i].method = method
    THEN config.manualTypes[CHOOSE i \in 1..Len(config.manualTypes) :
             config.manualTypes[i].url = url
             /\ config.manualTypes[i].method = method].types
    ELSE <<>>

\* An override value: a type expression, a data value, or a function given
\* by what its call settles to (an outcome: a string, a data value, or a
\* rejection).
Outcome(kind, value, json) == [kind |-> kind, value |-> value, json |-> json]
Literal(s) ==
    [kind |-> "string", value |-> s, json |-> JNull, returns |-> <<>>]
Data(j) == [kind |-> "object", value |-> "", json |-> j, returns |-> <<>>]
Function(outcome) ==
    [kind |-> "function", value |-> "", json |-> JNull, returns |-> <<outcome>>]

\* the value written to item[k]: `if (typeof t === 'object') t = jsonToType(t)`
overrideValue(t) == IF t.kind = "object" THEN jsonToType(t.json) ELSE t.value

RECURSIVE mergeManualTypes(_, _, _)
\* mergeManualTypes(item, manualTypes) up to the awaits: keys.map runs each
\* callback, in key order, until its first await.  A string or data override
\* is written at once; a function is CALLED at once, with the item as it is
\* then, and its callback waits for the result.  out: the item and the
\* calls started, each [k, returns, observed].
mergeManualTypes(item, types, j) ==
    IF j > Len(types) THEN [item |-> item, started |-> <<>>]
    ELSE
      LET k == types[j].k
          t == types[j].t
      IN IF t.kind = "string" /\ t.value = ""    \* `if (t)`: skipped
         THEN mergeManualTypes(item, types, j + 1)
         ELSE IF t.kind = "function"
         THEN LET rest == mergeManualTypes(item, types, j + 1) IN
              [item |-> rest.item,
               started |-> <<[k |-> k, returns |-> t.returns[1],
                              observed |-> item]>> \o rest.started]
         ELSE mergeManualTypes([item EXCEPT ![k] = overrideValue(t)],
                               types, j + 1)

\* requestItems.push(item) and tasks.push(this.mergeManualTypes(item,
\* manualTypes)), up to the awaits; out: the override calls started, each
\* with the place of its item
pushMerged(this, tag, merged) ==
    Ret([this EXCEPT !.tags = pushItem(@, tag, merged.item)],
        [n \in 1..Len(merged.started) |->
             [g |-> groupIndex(this.tags, tag),
              i |-> Len(this.tags[groupIndex(this.tags, tag)].items) + 1,
              k |-> merged.started[n].k,
              returns |-> merged.started[n].returns,
              observed |-> merged.started[n].observed,
              state |-> "pending"]])

\* the iteration, the group `tag` of the operation known
parseTaggedV2(this, url, method, operationItem, path, tag) ==
    IF ~validate(this._tagValidator, tag) THEN Ret(this, <<>>)
    ELSE Then(parseParamsSchemaV2([this EXCEPT !.tags = ensureGroup(@, tag)],
                                  operationItem),
              LAMBDA ps1, paramsSchema :
         Then(parseResponseSchema(ps1, operationItem),
              LAMBDA ps2, responseType :
         pushMerged(ps2, tag,
             mergeManualTypes(
                 [name |-> method \o pascalCase(path),
                  url |-> url, method |-> method,
                  description |-> operationItem.description,
                  requestPathType |-> paramsSchema.path,
                  requestQueryType |-> paramsSchema.query,
                  requestBodyType |-> paramsSchema.body,
                  requestBodyTypeIsFormData |-> paramsSchema.isFormDataBody,
                  responseType |-> responseType],
                 manualTypesOf(this.config, url, method), 1))))

\* one iteration of the inner loop of ParseSchemasV2.parsePaths; out: the
\* override calls it started (nothing when it threw)
parseOperationV2(this, url, pathItemKey, operationItem) ==
    IF ~isHttpMethod(pathItemKey) THEN Ret(this, <<>>)
    ELSE parseTaggedV2(this, url, pathItemKey, operationItem,
                       urlToName(this.config, url),
                       getTagOf(this.config, urlToName(this.config, url),
                                pathItemKey, operationItem))

----------------------------------------------------------------------------
(* generate: the declaration generator                                     *)

TYPE_NAME_SUFFIXES ==
    [params |-> "Params", pathParams |-> "PathParams", data |-> "Request",
     res |-> "Response", resRoot |-> "ResponseROOT"]

\* array.filter(Boolean) on strings: the non-empty ones
RECURSIVE filterBoolean(_)
filterBoolean(list) ==
    IF Len(list) = 0 THEN <<>>
    ELSE (IF list[1] = "" THEN <<>> ELSE <<list[1]>>) \o filterBoolean(Tail(list))

\* s.split(sep), sep one character
RECURSIVE split(_, _)
split(s, sep) ==
    IF \E i \in 1..Len(s) : CharAt(s, i) = sep
    THEN LET i == CHOOSE i \in 1..Len(s) :
                      CharAt(s, i) = sep
                      /\ \A j \in 1..(i - 1) : CharAt(s, j) # sep
         IN <<SubSeq(s, 1, i - 1)>> \o split(SubSeq(s, i + 1, Len(s)), sep)
    ELSE <<s>>

\* createImportsTemplate, with the default import paths
createImportsTemplate(docOptions) ==
    LET requests == IF docOptions.ssr.kind # "false"
                    THEN "httpClient, requestSSR" ELSE "httpClient"
    IN join(<<"import type { AxiosRequestConfig } from axios",
              "import " \o requests \o " from axios">>, "\n")

IsSpace(c) == c \in {" ", "\n", "\t", "\r"}

\* /}\s*&\s*\{/.test(type)
closesAndReopens(type) ==
    \E i \in 1..Len(type), j \in 1..Len(type), k \in 1..Len(type) :
        /\ i < j /\ j < k
        /\ CharAt(type, i) = "}" /\ CharAt(type, j) = "&" /\ CharAt(type, k) = "{"
        /\ \A m \in (i + 1)..(j - 1) : IsSpace(CharAt(type, m))
        /\ \A m \in (j + 1)..(k - 1) : IsSpace(CharAt(type, m))

\* createTypeTemplate that never wraps in the response root
createTypeTemplate_noRoot(scopeName, refs, name, type, inResponseRoot) ==
    LET t == IF type \in refs THEN "API." \o scopeName \o "." \o type ELSE type IN
    IF startsWith(t, "{") /\ endsWith(t, "}")
    THEN "\ninterface " \o name \o " " \o t \o "\n"
    ELSE "\ntype " \o name \o " = " \o t \o "\n"

\* createTypeTemplate(name, type, inResponseRoot), scopeName and refs given
createTypeTemplate(scopeName, refs, name, type, inResponseRoot) ==
    LET t == IF type \in refs THEN "API." \o scopeName \o "." \o type ELSE type IN
    IF inResponseRoot
    THEN "\ntype " \o name \o " = API." \o scopeName \o "."
             \o TYPE_NAME_SUFFIXES.resRoot \o "<" \o t \o ">\n"
    ELSE IF startsWith(t, "{") /\ endsWith(t, "}") /\ ~closesAndReopens(t)
    THEN "\ninterface " \o name \o " " \o t \o "\n"
    ELSE "\ntype " \o name \o " = " \o t \o "\n"

\* url.replace(/\{.+}/g, m => '${options.pathParams.' + m.slice(1)): .+ is
\* greedy, so the one match runs from the first `{` to the LAST `}` of the
\* url, with at least one character between them
replacePlaceholders(url) ==
    IF \E i \in 1..Len(url), j \in 1..Len(url) :
           CharAt(url, i) = "{" /\ CharAt(url, j) = "}" /\ j > i + 1
    THEN LET i == CHOOSE i \in 1..Len(url) :
                      CharAt(url, i) = "{"
                      /\ \A m \in 1..(i - 1) : CharAt(url, m) # "{"
             j == CHOOSE j \in 1..Len(url) :
                      CharAt(url, j) = "}"
                      /\ \A m \in (j + 1)..Len(url) : CharAt(url, m) # "}"
         IN IF j > i + 1
            THEN SubSeq(url, 1, i - 1) \o "${options.pathParams."
                     \o SubSeq(url, i + 1, j) \o SubSeq(url, j + 1, Len(url))
            ELSE url
    ELSE url

formatURL(docOptions, url) ==
    LET prefix == docOptions.removeUrlPrefix
        u == IF prefix # "" /\ startsWith(url, prefix)
             THEN SubSeq(url, Len(prefix) + 1, Len(url)) ELSE url
    IN docOptions.urlPrefix \o replacePlaceholders(u)

\* createReturnType()
createReturnType(docOptions, apiRefPrefix) ==
    LET ref == apiRefPrefix \o TYPE_NAME_SUFFIXES.res
        path == docOptions.customResponseReturnPath
        parts == filterBoolean(split(path, "."))
        pathRef == IF path # ""
                   THEN concat([i \in 1..Len(parts) |-> "['" \o parts[i] \o "']"])
                   ELSE ""
    IN [inApply |-> IF path # "" THEN "" ELSE "<" \o ref \o ">",
        inReturn |-> IF path # "" THEN ": Promise<" \o ref \o pathRef \o ">"
                     ELSE ""]

\* /^(post|put)/.test(method)
isPostOrPut(method) == startsWith(method, "post") \/ startsWith(method, "put")

\* argsTemplate of createFunctionTemplate: the members of `options`
argsTemplate(requestItem, apiRefPrefix, ssr) ==
    filterBoolean(<<
        IF ssr THEN "ctx: RequestContext;" ELSE "",
        IF requestItem.requestPathType # ""
        THEN "pathParams: " \o apiRefPrefix \o TYPE_NAME_SUFFIXES.pathParams \o ";"
        ELSE "",
        IF requestItem.requestBodyType # ""
        THEN "data: Partial<" \o apiRefPrefix \o TYPE_NAME_SUFFIXES.data \o ">;"
        ELSE "",
        IF requestItem.requestQueryType # ""
        THEN "params: Partial<" \o apiRefPrefix \o TYPE_NAME_SUFFIXES.params \o ">;"
        ELSE "",
        "config?: AxiosRequestConfig">>)

\* The grave accent that opens and closes a template literal cannot be
\* written in a TLA+ string; "~" stands for it in the emitted text.
Backtick == "~"

\* applyArgs of createFunctionTemplate
applyArgs(docOptions, requestItem) ==
    [url |-> Backtick \o formatURL(docOptions, requestItem.url) \o Backtick,
     data |-> IF requestItem.requestBodyType # "" /\ isPostOrPut(requestItem.method)
              THEN "options.data" ELSE "",
     config |-> IF requestItem.requestQueryType # ""
                THEN "{ ...options.config, params: options.params }"
                ELSE "options.config"]

\* createFunctionTemplate(ssr) for one request item
createFunctionTemplate(docOptions, requestItem, apiRefPrefix, ssr) ==
    LET args == argsTemplate(requestItem, apiRefPrefix, ssr)
        apply == applyArgs(docOptions, requestItem)
        returnType == createReturnType(docOptions, apiRefPrefix)
    IN join(<<
        IF requestItem.description # ""
        THEN "\n/** " \o (IF ssr THEN "SSR: " ELSE "")
                 \o requestItem.description \o " */"
        ELSE "",
        "export function " \o requestItem.name \o (IF ssr THEN "SSR" ELSE "")
            \o "(options: { " \o join(args, " ") \o " })"
            \o returnType.inReturn \o " {",
        IF ssr
        THEN "  return requestSSR" \o returnType.inApply \o "(options.ctx, { "
                 \o join(filterBoolean(<<
                        "...options.config",
                        "method: '" \o requestItem.method \o "'",
                        "url: " \o apply.url,
                        IF apply.data # "" THEN "data: options.data" ELSE "",
                        IF requestItem.requestQueryType # ""
                        THEN "params: options.params" ELSE "">>), ", ")
                 \o " })"
        ELSE "  return httpClient." \o requestItem.method \o returnType.inApply
                 \o "(" \o join(filterBoolean(<<apply.url, apply.data,
                                                 apply.config>>), ", ")
                 \o ")",
        "}",
        "">>, "\n")

\* whether the SSR variant of an item is emitted
wantsSSR(docOptions, requestItem) ==
    IF docOptions.ssr.kind = "list"
    THEN indexOf(docOptions.ssr.list, requestItem.method) >= 0
    ELSE docOptions.ssr.kind = "true" /\ requestItem.method = "get"

\* the declarations of one request item in its group's dtsTemplate
itemDeclarations(docOptions, scopeName, refs, requestItem) ==
    LET scopeRefName == pascalCase(requestItem.name) IN
    (IF requestItem.requestPathType # ""
     THEN createTypeTemplate(scopeName, refs,
              scopeRefName \o TYPE_NAME_SUFFIXES.pathParams,
              requestItem.requestPathType, FALSE)
     ELSE "")
    \o (IF requestItem.requestQueryType # ""
        THEN createTypeTemplate(scopeName, refs,
                 scopeRefName \o TYPE_NAME_SUFFIXES.params,
                 requestItem.requestQueryType, FALSE)
        ELSE "")
    \o (IF requestItem.requestBodyType # ""
        THEN createTypeTemplate(scopeName, refs,
                 scopeRefName \o TYPE_NAME_SUFFIXES.data,
                 requestItem.requestBodyType, FALSE)
        ELSE "")
    \o createTypeTemplate(scopeName, refs,
           scopeRefName \o TYPE_NAME_SUFFIXES.res,
           IF requestItem.responseType # "" THEN requestItem.responseType
           ELSE "any",
           docOptions.responseRootInterface.set)

\* the document-wide declaration text
docTypesTemplate(docOptions, scopeName, typesTemplate, interfacesTemplate) ==
    LET resRoot == docOptions.responseRootInterface
        root == IF resRoot.set
                THEN "interface " \o TYPE_NAME_SUFFIXES.resRoot \o "<T> {\n"
                       \o concat([i \in 1..Len(resRoot.list) |->
                              "  " \o resRoot.list[i].prop \o ": "
                                   \o resRoot.list[i].type \o "\n"])
                       \o "}\n"
                ELSE ""
    IN join(<<"declare namespace API {",
              "namespace " \o scopeName \o " {",
              "",
              root \o concat(typesTemplate) \o concat(interfacesTemplate),
              "}}",
              "">>, "\n")

\* apiRefPrefix of a request item: `API.${scopeName}.${scopeTag}.` and the
\* item's scopeRefName
apiRefPrefix(docOptions, tag, requestItem) ==
    "API." \o pascalCase(docOptions.name) \o "." \o pascalCase(tag) \o "."
           \o pascalCase(requestItem.name)

\* the body of the `for (const tag in tags)` loop for one group: the files
\* it hands to the writer.  types.d.ts is given by the dtsTemplate handed to
\* the formatter (an external collaborator) and is written when it answers.
generateGroup(docOptions, this, group) ==
    LET scopeName == pascalCase(docOptions.name)
        prefixOf(item) == apiRefPrefix(docOptions, group.tag, item)
        functionsTemplate ==
            createImportsTemplate(docOptions)
              \o concat([i \in 1..Len(group.items) |->
                     createFunctionTemplate(docOptions, group.items[i],
                                            prefixOf(group.items[i]), FALSE)])
        functionsTemplateSSR ==
            concat([i \in 1..Len(group.items) |->
                IF wantsSSR(docOptions, group.items[i])
                THEN createFunctionTemplate(docOptions, group.items[i],
                                            prefixOf(group.items[i]), TRUE)
                ELSE ""])
        dtsTemplate ==
            concat([i \in 1..Len(group.items) |->
                itemDeclarations(docOptions, scopeName, this.refs, group.items[i])])
    IN <<[file |-> "index.ts", tag |-> group.tag,
          content |-> functionsTemplate \o functionsTemplateSSR],
         [file |-> "types.d.ts", tag |-> group.tag, content |-> dtsTemplate],
         [file |-> "doc-types.d.ts", tag |-> group.tag,
          content |-> docTypesTemplate(docOptions, scopeName,
                          this.typesTemplate, this.interfacesTemplate)]>>

\* generate, after `await ps.parsePaths()`: the files of every group
RECURSIVE generateGroups(_, _, _)
generateGroups(docOptions, this, g) ==
    IF g > Len(this.tags) THEN <<>>
    ELSE generateGroup(docOptions, this, this.tags[g])
             \o generateGroups(docOptions, this, g + 1)

----------------------------------------------------------------------------
(* The documents and configurations generate runs on                       *)

\* the reference to a named schema, in the dialect's form
RefTo(v2, name) ==
    Ref((IF v2 THEN "#/definitions/" ELSE "#/components/schemas/") \o name)

\* the schema map of every document: User, the cycle Pet -> Owner -> Pet,
\* the self-referencing Node, the alias Status and the envelope of an id
Schemas(v2) ==
    <<[name |-> "User", node |-> Obj(<<Prop("name", Prim("string"))>>)],
      [name |-> "Pet",
       node |-> Obj(<<Prop("owner", RefTo(v2, "Owner")),
                      Prop("status", RefTo(v2, "Status"))>>)],
      [name |-> "Owner",
       node |-> Described(Obj(<<Prop("pets", Arr(RefTo(v2, "Pet")))>>), "keeper")],
      [name |-> "Node", node |-> Obj(<<Prop("next", RefTo(v2, "Node"))>>)],
      [name |-> "Status", node |-> Described(Enum(<<"on", "off">>), "state")],
      [name |-> "api.User", node |-> Obj(<<Prop("id", Prim("integer"))>>)]>>

\* a parameter that carries its type itself (V2) or in its schema (V3)
TypedParam(v2, name, in, node) ==
    IF v2 THEN Param(name, in, node) ELSE ParamWithSchema(name, in, node)

UsersPath(v2) ==
    [url |-> "/users/{id}",
     item |-> <<[key |-> "get",
                 operation |-> Operation(<<>>,
                     <<TypedParam(v2, "id", "path", Prim("integer"))>>,
                     NoBody, BodyOf(RefTo(v2, "User")))]>>]

PetsPath(v2) ==
    [url |-> "/pets",
     item |-> <<[key |-> "parameters", operation |-> Operation(<<>>, <<>>, NoBody, NoBody)],
                [key |-> "get",
                 operation |-> Operation(<<"pet">>,
                     <<TypedParam(v2, "status", "query", Enum(<<"on", "off">>))>>,
                     NoBody, BodyOf(Arr(RefTo(v2, "Pet"))))],
                [key |-> "post",
                 operation |-> Operation(<<"pet">>,
                     IF v2 THEN <<ParamWithSchema("root", "body", RefTo(v2, "Pet"))>>
                     ELSE <<>>,
                     IF v2 THEN NoBody ELSE BodyOf(RefTo(v2, "Pet")),
                     BodyOf(RefTo(v2, "Pet")))]>>]

UploadPath(v2) ==
    [url |-> "/upload",
     item |-> <<[key |-> "post",
                 operation |-> Operation(<<"file">>,
                     IF v2 THEN <<Param("file", "formData", Prim("file")),
                                  Param("name", "formData", Prim("string"))>>
                     ELSE <<>>,
                     IF v2 THEN NoBody
                     ELSE BodyOf(Obj(<<Prop("name", Prim("string"))>>)),
                     NoBody)]>>]

NodesPath(v2) ==
    [url |-> "/nodes",
     item |-> <<[key |-> "get",
                 operation |-> Operation(<<>>, <<ParamRef("#/parameters/limit")>>,
                     NoBody, BodyOf(RefTo(v2, "Node")))],
                [key |-> "put",
                 operation |-> Operation(<<>>, <<>>,
                     NoBody, BodyOf(Arr(RefTo(v2, "User"))))],
                [key |-> "patch",
                 operation |-> Operation(<<>>, <<>>,
                     NoBody, BodyOf(RefTo(v2, "Node")))]>>]

MissingPath(v2) ==
    [url |-> "/missing",
     item |-> <<[key |-> "get",
                 operation |-> Operation(<<>>, <<>>, NoBody,
                     BodyOf(Obj(<<Prop("gone", RefTo(v2, "Missing")),
                                  Prop("user", RefTo(v2, "api.User"))>>)))]>>]

\* `type: array` without items
BadPath(v2) ==
    [url |-> "/bad",
     item |-> <<[key |-> "delete",
                 operation |-> Operation(<<"pet">>, <<>>, NoBody,
                     BodyOf(Prim("array")))]>>]

\* a url that differs from /users/{id} by its braces alone
UsersIdPath(v2) ==
    [url |-> "/users/id",
     item |-> <<[key |-> "get",
                 operation |-> Operation(<<>>, <<>>, NoBody,
                     BodyOf(Prim("string")))]>>]

PathPool(v2) ==
    <<UsersPath(v2), PetsPath(v2), UploadPath(v2), NodesPath(v2),
      MissingPath(v2), BadPath(v2), UsersIdPath(v2)>>

MaxPaths == 2

\* doc.paths: up to MaxPaths distinct paths of the pool, in any order
Docs ==
    { [swagger |-> v2, schemas |-> Schemas(v2),
       paths |-> [n \in 1..Len(order) |-> PathPool(v2)[order[n]]]] :
        v2 \in BOOLEAN,
        order \in { o \in SeqsOf(1..Len(PathPool(TRUE)), 1, MaxPaths) :
                        \A a, b \in 1..Len(o) : a # b => o[a] # o[b] } }

DefaultConfig ==
    [name |-> "shop", include |-> Undefined, exclude |-> Undefined,
     propKeyReplacer |-> "none",
     urlToNameReplacer |-> [set |-> FALSE, list |-> <<>>],
     getTag |-> [set |-> FALSE, list |-> <<>>, default |-> ""],
     manualTypes |-> <<>>,
     ssr |-> [kind |-> "false", list |-> <<>>],
     urlPrefix |-> "", removeUrlPrefix |-> "",
     responseRootInterface |-> [set |-> FALSE, list |-> <<>>],
     customResponseReturnPath |-> ""]

\* manualTypes: a literal and a function for GET /users/{id}, a function
\* that rejects for POST /upload, a data value for GET /pets
Overrides ==
    <<[url |-> "/users/{id}", method |-> "get",
       types |-> <<[k |-> "requestQueryType",
                    t |-> Function(Outcome("object", "",
                              JObj(<<[key |-> "page", value |-> JNum(1)]>>)))],
                   [k |-> "responseType", t |-> Literal("Foo")]>>],
      [url |-> "/nodes", method |-> "get",
       types |-> <<[k |-> "responseType",
                    t |-> Function(Outcome("string", "Bar", JNull))]>>],
      [url |-> "/upload", method |-> "post",
       types |-> <<[k |-> "requestBodyType",
                    t |-> Function(Outcome("reject", "", JNull))]>>],
      [url |-> "/pets", method |-> "get",
       types |-> <<[k |-> "responseType", t |-> Data(JArr(<<JStr("x")>>))]>>],
      [url |-> "/users/id", method |-> "get",
       types |-> <<[k |-> "responseType", t |-> Literal("Baz")],
                   [k |-> "requestQueryType",
                    t |-> Function(Outcome("string", "Q", JNull))]>>]>>

Configs ==
    { DefaultConfig,
      [DefaultConfig EXCEPT !.include = Some(<<"pet">>)],
      [DefaultConfig EXCEPT !.exclude = Some(<<"PET">>)],
      [DefaultConfig EXCEPT !.manualTypes = Overrides],
      [DefaultConfig EXCEPT !.ssr = [kind |-> "true", list |-> <<>>],
                            !.urlPrefix = "/api",
                            !.responseRootInterface =
                                [set |-> TRUE,
                                 list |-> <<[prop |-> "data", type |-> "T"]>>]],
      [DefaultConfig EXCEPT !.urlToNameReplacer =
                                [set |-> TRUE,
                                 list |-> <<[from |-> "/pets", to |-> "/animals"]>>],
                            !.getTag =
                                [set |-> TRUE,
                                 list |-> <<[url |-> "/animals", method |-> "get",
                                             tag |-> "zoo"]>>,
                                 default |-> "misc"]] }

----------------------------------------------------------------------------
(* generate(outDir, docOptions, doc): the translator is constructed, then  *)
(* parsePaths runs its loop, awaits the overrides, and the files are made  *)

Init ==
    /\ \E doc \in Docs, docOptions \in Configs : ps = NewParser(doc, docOptions)
    /\ pc = "parsing"
    /\ cursor = 1
    /\ tasks = <<>>
    /\ files = <<>>
    /\ IdleFn
    /\ IdleBuild

\* one iteration of the loops of ParseSchemas.parsePaths (V3)
ParseOperation ==
    /\ pc = "parsing"
    /\ ~ps.doc.swagger
    /\ cursor <= Len(Entries(ps.doc.paths))
    /\ \E e \in {Entries(ps.doc.paths)[cursor]} :
       \E after \in {parseOperation(ps, e.url, e.key, e.operation)} :
          /\ ps' = after
          /\ pc' = IF after.threw THEN "failed" ELSE "parsing"
    /\ cursor' = cursor + 1
    /\ UNCHANGED <<tasks, files, fnVars, buildVars>>

\* one iteration of the loops of ParseSchemasV2.parsePaths
ParseOperationV2 ==
    /\ pc = "parsing"
    /\ ps.doc.swagger
    /\ cursor <= Len(Entries(ps.doc.paths))
    /\ \E e \in {Entries(ps.doc.paths)[cursor]} :
       \E r \in {parseOperationV2(ps, e.url, e.key, e.operation)} :
          /\ ps' = r.ps
          /\ tasks' = IF r.ps.threw THEN tasks ELSE tasks \o r.out
          /\ pc' = IF r.ps.threw THEN "failed" ELSE "parsing"
    /\ cursor' = cursor + 1
    /\ UNCHANGED <<files, fnVars, buildVars>>

\* the loops are over: V3 returns (its promise resolves at the next turn),
\* V2 returns Promise.all(tasks)
LoopEnd ==
    /\ pc = "parsing"
    /\ cursor > Len(Entries(ps.doc.paths))
    /\ pc' = "awaiting"
    /\ UNCHANGED <<ps, cursor, tasks, files, fnVars, buildVars>>

\* the call of an override function settles and its callback in
\* mergeManualTypes goes on: `item[k] = t`, or the task rejects
ResolveOverride(n) ==
    /\ pc = "awaiting"
    /\ tasks[n].state = "pending"
    /\ IF tasks[n].returns.kind = "reject"
       THEN /\ tasks' = [tasks EXCEPT ![n].state = "rejected"]
            /\ ps' = ps
       ELSE /\ tasks' = [tasks EXCEPT ![n].state = "done"]
            /\ ps' = [ps EXCEPT !.tags[tasks[n].g].items[tasks[n].i][tasks[n].k] =
                          overrideValue(tasks[n].returns)]
    /\ UNCHANGED <<pc, cursor, files, fnVars, buildVars>>

\* `await ps.parsePaths()` goes on: every task is fulfilled
PathsResolved ==
    /\ pc = "awaiting"
    /\ \A n \in 1..Len(tasks) : tasks[n].state = "done"
    /\ pc' = "parsed"
    /\ UNCHANGED <<ps, cursor, tasks, files, fnVars, buildVars>>

\* `await ps.parsePaths()` throws: Promise.all rejects with the first
\* rejection, whatever the other tasks are at
PathsRejected ==
    /\ pc = "awaiting"
    /\ \E n \in 1..Len(tasks) : tasks[n].state = "rejected"
    /\ pc' = "failed"
    /\ UNCHANGED <<ps, cursor, tasks, files, fnVars, buildVars>>

\* the rest of generate: the `for (const tag in tags)` loop
Generate ==
    /\ pc = "parsed"
    /\ files' = generateGroups(ps.config, ps, 1)
    /\ pc' = "generated"
    /\ UNCHANGED <<ps, cursor, tasks, fnVars, buildVars>>

Next ==
    \/ ParseOperation
    \/ ParseOperationV2
    \/ LoopEnd
    \/ \E n \in 1..Len(tasks) : ResolveOverride(n)
    \/ PathsResolved
    \/ PathsRejected
    \/ Generate

Spec == Init /\ [][Next]_vars

----------------------------------------------------------------------------
(* Properties of the translation and of generate                           *)

\* s.includes(sub)
includes(s, sub) ==
    \E i \in 1..(Len(s) - Len(sub) + 1) : SubSeq(s, i, i + Len(sub) - 1) = sub

\* the chunk of a template buffer declares the type `typeName`
declares(chunk, typeName) ==
    \/ startsWith(chunk, "\ninterface " \o typeName \o " ")
    \/ startsWith(chunk, "\ntype " \o typeName \o " = ")

isDeclaration(chunk) ==
    startsWith(chunk, "\ninterface ") \/ startsWith(chunk, "\ntype ")

\* how many declarations of `typeName` the two buffers hold
declarationCount(this, typeName) ==
    Cardinality({i \in 1..Len(this.typesTemplate) :
                     declares(this.typesTemplate[i], typeName)})
    + Cardinality({i \in 1..Len(this.interfacesTemplate) :
                       declares(this.interfacesTemplate[i], typeName)})

\* how many declarations the two buffers hold
declarationsEmitted(this) ==
    Cardinality({i \in 1..Len(this.typesTemplate) :
                     isDeclaration(this.typesTemplate[i])})
    + Cardinality({i \in 1..Len(this.interfacesTemplate) :
                       isDeclaration(this.interfacesTemplate[i])})

\* C2: within one translator instance of either dialect, every resolution
\* of a reference to a schema name returns the same formatted type name,
\* no type name is ever declared twice, and once the references met so far
\* are resolved (no exception unwinding) each name of them that the schema
\* map holds has exactly one declaration in the buffers.
C2_SameNameDeclaredOnce ==
    /\ \A i, j \in 1..Len(ps.resolved) :
           ps.resolved[i].name = ps.resolved[j].name
               => ps.resolved[i].typeName = ps.resolved[j].typeName
    /\ \A i \in 1..Len(ps.resolved) :
           /\ declarationCount(ps, ps.resolved[i].typeName) <= 1
           /\ (~ps.threw /\ ~SchemaOf(ps.doc, ps.resolved[i].name).nil)
                  => declarationCount(ps, ps.resolved[i].typeName) = 1

\* C2: parsePaths has resolved, and some name of the schema map was
\* resolved by two or more references and is declared once
C2_ResolvedTwice ==
    /\ pc = "parsed"
    /\ \E i, j \in 1..Len(ps.resolved) :
           /\ i # j
           /\ ps.resolved[i].name = ps.resolved[j].name
           /\ ~SchemaOf(ps.doc, ps.resolved[i].name).nil
           /\ declarationCount(ps, ps.resolved[i].typeName) = 1

\* the formatted names met during the pass
namesEncountered(this) ==
    {this.resolved[i].typeName : i \in 1..Len(this.resolved)}

\* the formatted names met during the pass through a reference to a schema
\* that the schema map holds
namesBacked(this) ==
    {this.resolved[i].typeName :
         i \in {j \in 1..Len(this.resolved) :
                    ~SchemaOf(this.doc, this.resolved[j].name).nil}}

\* C3, as stated: after parsePaths completes, the number of declarations in
\* typesTemplate and interfacesTemplate equals the number of distinct
\* formatted reference names met during the pass.
C3_DeclarationPerNameMet ==
    pc = "parsed" => declarationsEmitted(ps) = Cardinality(namesEncountered(ps))

\* C3, amended: after parsePaths completes, the number of declarations in
\* typesTemplate and interfacesTemplate equals the number of distinct
\* formatted names met through a reference to a schema that the schema map
\* holds, however many operations refer to each; a name whose schema is
\* missing from the map gets no declaration.
C3_DeclarationPerNameBacked ==
    pc = "parsed" =>
        /\ declarationsEmitted(ps) = Cardinality(namesBacked(ps))
        /\ \A typeName \in namesBacked(ps) : declarationCount(ps, typeName) = 1
        /\ \A typeName \in namesEncountered(ps) \ namesBacked(ps) :
               declarationCount(ps, typeName) = 0

\* C3: parsePaths has completed on a document that refers to a schema the
\* map does not hold and to one it holds
C3_MissingAndBacked ==
    /\ pc = "parsed"
    /\ namesBacked(ps) # {}
    /\ namesEncountered(ps) \ namesBacked(ps) # {}

\* C4: the translation never exhausts the call stack, the seen flag of a
\* name is set when the translator goes into the body of its schema, and
\* no schema body is entered twice in one pass.
C4_BodiesEnteredOnce ==
    /\ ~ps.overflow
    /\ \A i \in 1..Len(ps.entered) : ps.entered[i].seen
    /\ \A i, j \in 1..Len(ps.entered) :
           i # j => ps.entered[i].name # ps.entered[j].name

\* C4: parsePaths has completed on a document whose schemas Pet and Owner
\* refer to each other, or whose schema Node refers to itself
C4_CycleTranslated ==
    /\ pc = "parsed"
    /\ \/ \E i, j \in 1..Len(ps.entered) :
              ps.entered[i].name = "Pet" /\ ps.entered[j].name = "Owner"
       \/ \E i \in 1..Len(ps.entered) : ps.entered[i].name = "Node"

\* the operations parsePaths retains: [url, method, operation]
retained(this) ==
    LET es == Entries(this.doc.paths) IN
    {n \in 1..Len(es) :
         /\ isHttpMethod(es[n].key)
         /\ validate(this._tagValidator,
                     IF this.doc.swagger
                     THEN getTagOf(this.config, urlToName(this.config, es[n].url),
                                   es[n].key, es[n].operation)
                     ELSE firstTag(es[n].operation))}

\* what an override leaves in the field once resolved
resolvedOverride(t) ==
    IF t.kind = "function" THEN overrideValue(t.returns[1]) ELSE overrideValue(t)

\* the field k of the RequestItem of (url, method) holds `value`
fieldHolds(this, url, method, k, value) ==
    \E g \in 1..Len(this.tags) : \E i \in 1..Len(this.tags[g].items) :
        /\ this.tags[g].items[i].url = url
        /\ this.tags[g].items[i].method = method
        /\ this.tags[g].items[i][k] = value

\* C5: in either dialect, when the promise of parsePaths resolves, every
\* override configured under manualTypes[url][method] for a retained
\* operation is resolved and written into its field of the operation's
\* RequestItem; and generate has made nothing from the items, the registry
\* or the buffers before that.
C5_OverridesWrittenBeforeResolve ==
    /\ pc = "parsed" =>
           \A n \in retained(ps) :
               LET e == Entries(ps.doc.paths)[n]
                   types == manualTypesOf(ps.config, e.url, e.key)
               IN \A j \in 1..Len(types) :
                      ~(types[j].t.kind = "string" /\ types[j].t.value = "")
                          => fieldHolds(ps, e.url, e.key, types[j].k,
                                        resolvedOverride(types[j].t))
    /\ pc \in {"parsing", "awaiting", "failed"} => files = <<>>

\* the scenario of C8: a V3 document with the one operation GET /users/{id},
\* no tag filter on it, parsePaths completed
C8_Scenario ==
    /\ pc = "parsed"
    /\ ~ps.doc.swagger
    /\ ps.doc.paths = <<UsersPath(FALSE)>>
    /\ ~ps.config.include.set

\* the rest of what C8 states of the scenario, the name apart
C8_ItemButName ==
    /\ Len(ps.tags) = 1
    /\ ps.tags[1].tag = "main"
    /\ Len(ps.tags[1].items) = 1
    /\ ps.tags[1].items[1].requestPathType = "{\n" \o "  id: number\n" \o "}"
    /\ ps.tags[1].items[1].requestQueryType = ""
    /\ ps.tags[1].items[1].requestBodyType = ""
    /\ ps.tags[1].items[1].responseType = "User"
    /\ declarationCount(ps, "User") = 1
    /\ \E i \in 1..Len(ps.interfacesTemplate) :
           startsWith(ps.interfacesTemplate[i], "\ninterface User ")

\* C8, as stated: parsePaths yields one RequestItem in group "main" named
\* `getUsers`, with the path type of the single line `id: number`, empty
\* query and body types, the response type `User`, and one declaration
\* `interface User`.
C8_NamedGetUsers ==
    C8_Scenario => C8_ItemButName /\ ps.tags[1].items[1].name = "getUsers"

\* C8, amended: parsePaths yields one RequestItem in group "main" named
\* `getUsersId` (the method, then the url in Pascal case, the parameter's
\* name included), with the path type of the single line `id: number`,
\* empty query and body types, the response type `User`, and one
\* declaration `interface User`.
C8_NamedGetUsersId ==
    C8_Scenario => C8_ItemButName /\ ps.tags[1].items[1].name = "getUsersId"

\* C8: the scenario has been run and has left a RequestItem
C8_ScenarioRun ==
    C8_Scenario /\ Len(ps.tags) = 1 /\ Len(ps.tags[1].items) = 1

\* the request function generate emits for the item i of the group g
emittedFunction(g, i) ==
    createFunctionTemplate(ps.config, ps.tags[g].items[i],
        apiRefPrefix(ps.config, ps.tags[g].tag, ps.tags[g].items[i]), FALSE)

\* the function generate would emit for the same item with the flag false
emittedWithoutFlag(g, i) ==
    createFunctionTemplate(ps.config,
        [ps.tags[g].items[i] EXCEPT !.requestBodyTypeIsFormData = FALSE],
        apiRefPrefix(ps.config, ps.tags[g].tag, ps.tags[g].items[i]), FALSE)

\* C10: for every RequestItem whose flag requestBodyTypeIsFormData is true,
\* the request function in the emitted index.ts has no JSON-body argument
\* (no `data: Partial<...>` in its options, no `options.data` in its call)
\* and differs from the function emitted for the item with the flag false.
C10_FormDataOmitsJsonBody ==
    pc = "generated" =>
        \A g \in 1..Len(ps.tags) : \A i \in 1..Len(ps.tags[g].items) :
            ps.tags[g].items[i].requestBodyTypeIsFormData
                => /\ \E f \in 1..Len(files) :
                          /\ files[f].file = "index.ts"
                          /\ files[f].tag = ps.tags[g].tag
                          /\ includes(files[f].content, emittedFunction(g, i))
                   /\ ~includes(emittedFunction(g, i), "data: Partial<")
                   /\ ~includes(emittedFunction(g, i), "options.data")
                   /\ emittedFunction(g, i) # emittedWithoutFlag(g, i)

\* the text of the group's types.d.ts handed to the formatter
declarationsOf(tag) ==
    concat([f \in 1..Len(files) |->
        IF files[f].file = "types.d.ts" /\ files[f].tag = tag
        THEN files[f].content ELSE ""])

\* the name of the response declaration of a request item
responseName(requestItem) ==
    pascalCase(requestItem.name) \o "Response"

\* T of the response declaration: the response type of the item, `any` when
\* it is empty, by its qualified name when it is a registered schema name
responseArgument(this, requestItem) ==
    LET T == IF requestItem.responseType = "" THEN "any"
             ELSE requestItem.responseType
    IN IF T \in this.refs
       THEN "API." \o pascalCase(this.config.name) \o "." \o T ELSE T

\* C11: when responseRootInterface is configured, the response declaration
\* emitted for every RequestItem is the alias
\* `type <Name>Response = API.<Scope>.ResponseROOT<T>`, T the response type
\* of the item (`any` when it is empty), and the group's declarations hold
\* no direct alias `type <Name>Response = T` and no `interface
\* <Name>Response`; when responseRootInterface is not configured, no
\* group's declarations mention ResponseROOT.
C11_ResponseAliasesRoot ==
    pc = "generated" =>
        \A g \in 1..Len(ps.tags) :
            IF ps.config.responseRootInterface.set
            THEN \A i \in 1..Len(ps.tags[g].items) :
                     /\ includes(declarationsOf(ps.tags[g].tag),
                            "\ntype " \o responseName(ps.tags[g].items[i])
                                \o " = API." \o pascalCase(ps.config.name)
                                \o ".ResponseROOT<"
                                \o responseArgument(ps, ps.tags[g].items[i])
                                \o ">\n")
                     /\ ~includes(declarationsOf(ps.tags[g].tag),
                            "\ntype " \o responseName(ps.tags[g].items[i])
                                \o " = "
                                \o responseArgument(ps, ps.tags[g].items[i])
                                \o "\n")
                     /\ ~includes(declarationsOf(ps.tags[g].tag),
                            "\ninterface "
                                \o responseName(ps.tags[g].items[i]) \o " ")
            ELSE ~includes(declarationsOf(ps.tags[g].tag), "ResponseROOT")

\* C11: generate has run with responseRootInterface configured on a group
\* that has an item answering a registered schema and on one that has an
\* item with no response type
C11_RootConfiguredAndEmitted ==
    /\ pc = "generated"
    /\ ps.config.responseRootInterface.set
    /\ \E g \in 1..Len(ps.tags) : \E i \in 1..Len(ps.tags[g].items) :
           ps.tags[g].items[i].responseType \in ps.refs
    /\ \E g \in 1..Len(ps.tags) : \E i \in 1..Len(ps.tags[g].items) :
           ps.tags[g].items[i].responseType = ""

\* the writes of `file` that generate made for the group `tag`
writesOf(file, tag) ==
    {f \in 1..Len(files) : files[f].file = file /\ files[f].tag = tag}

\* the writes of the document-wide declaration file: every one of them goes
\* to the same path, <outDir>/<name>-types.d.ts
documentWideWrites ==
    {f \in 1..Len(files) : files[f].file = "doc-types.d.ts"}

\* C13: for every document on which generate completes, exactly one
\* document-wide declaration unit is produced (the envelope interface if
\* configured, and every emitted named schema), whatever the number of tag
\* groups, zero included; and exactly one function unit and one
\* declaration unit are produced per tag group.
C13_OneAggregatePerDocument ==
    pc = "generated" =>
        /\ documentWideWrites # {}
        /\ \A f \in documentWideWrites :
               files[f].content =
                   docTypesTemplate(ps.config, pascalCase(ps.config.name),
                                    ps.typesTemplate, ps.interfacesTemplate)
        /\ \A g \in 1..Len(ps.tags) :
               /\ Cardinality(writesOf("index.ts", ps.tags[g].tag)) = 1
               /\ Cardinality(writesOf("types.d.ts", ps.tags[g].tag)) = 1

\* a request item of `url` is in some group
hasItemOf(this, url) ==
    \E g \in 1..Len(this.tags) : \E i \in 1..Len(this.tags[g].items) :
        this.tags[g].items[i].url = url

\* parseRef on a reference to `Missing`, which no schema map holds, leaves
\* the registry and the two buffers as they are and returns the name
missingRefIsInert(this, r) ==
    /\ ~r.ps.threw
    /\ r.out = "Missing"
    /\ r.ps.refs = this.refs
    /\ r.ps.typesTemplate = this.typesTemplate
    /\ r.ps.interfacesTemplate = this.interfacesTemplate
    /\ r.ps.tags = this.tags

\* C14: in either dialect, resolving a reference whose schema name is
\* absent from the schema map is not fatal: at any point of the pass
\* parseRef returns the formatted name and leaves the registry,
\* typesTemplate and interfacesTemplate unchanged; and once an operation
\* has resolved such a reference, the name is not registered, no
\* declaration of it is in the buffers, and the operation has its
\* RequestItem.
C14_MissingSchemaNotFatal ==
    pc \in {"parsing", "awaiting", "parsed"} =>
        /\ missingRefIsInert(ps, parseRef(ps, RefTo(ps.doc.swagger, "Missing").ref))
        /\ "Missing" \in namesEncountered(ps) =>
               /\ ~ps.threw
               /\ "Missing" \notin ps.refs
               /\ declarationCount(ps, "Missing") = 0
               /\ hasItemOf(ps, "/missing")

\* C14: the operation GET /missing, whose response refers to the absent
\* schema Missing, has been translated
C14_MissingResolved ==
    /\ pc = "parsed"
    /\ "Missing" \in namesEncountered(ps)
    /\ hasItemOf(ps, "/missing")

\* the operation of (url, method) in the document
operationOf(doc, url, method) ==
    LET es == Entries(doc.paths) IN
    es[CHOOSE n \in 1..Len(es) : es[n].url = url /\ es[n].key = method].operation

\* the group the priority order gives: getTag(normalized url, method,
\* operation) when configured, else the first declared tag, else "main"
tagByPriority(config, url, method, operationItem) ==
    IF config.getTag.set
    THEN LET path == IF config.urlToNameReplacer.set
                     THEN applyMap(config.urlToNameReplacer, url) ELSE url
             hits == {i \in 1..Len(config.getTag.list) :
                          /\ config.getTag.list[i].url = path
                          /\ config.getTag.list[i].method = method}
         IN IF hits = {} THEN config.getTag.default
            ELSE config.getTag.list[CHOOSE i \in hits : TRUE].tag
    ELSE IF operationItem.tags # <<>> /\ operationItem.tags[1] # ""
    THEN operationItem.tags[1]
    ELSE "main"

\* C15: in both dialects, the group of every retained operation is the
\* result of getTag(normalized URL, method, operation) when getTag is
\* configured, otherwise the first declared tag of the operation,
\* otherwise "main".
C15_GroupByPriority ==
    pc \in {"parsing", "awaiting", "parsed", "generated"} =>
        \A g \in 1..Len(ps.tags) : \A i \in 1..Len(ps.tags[g].items) :
            ps.tags[g].tag =
                tagByPriority(ps.config, ps.tags[g].items[i].url,
                              ps.tags[g].items[i].method,
                              operationOf(ps.doc, ps.tags[g].items[i].url,
                                          ps.tags[g].items[i].method))

\* the loop of parsePaths is at an operation that the tag filter rejects
atRejectedOperation ==
    /\ pc = "parsing"
    /\ cursor <= Len(Entries(ps.doc.paths))
    /\ isHttpMethod(Entries(ps.doc.paths)[cursor].key)
    /\ cursor \notin retained(ps)

\* C16: processing an operation whose tag the tag filter rejects appends no
\* RequestItem, creates no group, registers nothing in the ref registry,
\* resolves no reference, appends nothing to typesTemplate or
\* interfacesTemplate and starts no override task.
C16_RejectedOperationSkipped ==
    [][atRejectedOperation =>
          /\ ps'.tags = ps.tags
          /\ ps'.refs = ps.refs
          /\ ps'.resolved = ps.resolved
          /\ ps'.entered = ps.entered
          /\ ps'.typesTemplate = ps.typesTemplate
          /\ ps'.interfacesTemplate = ps.interfacesTemplate
          /\ tasks' = tasks
          /\ pc' = "parsing"]_vars

\* C16: parsePaths has completed on a document of which it rejected an
\* operation that refers to a named schema and retained another, and the
\* schema referred to by the rejected operation alone is not emitted
C16_RejectedAndRetained ==
    /\ pc = "parsed"
    /\ ps.tags # <<>>
    /\ \E n \in 1..Len(Entries(ps.doc.paths)) :
           /\ Entries(ps.doc.paths)[n].url = "/users/{id}"
           /\ n \notin retained(ps)
    /\ "User" \notin ps.refs
    /\ declarationCount(ps, "User") = 0

\* the HTTP verbs of a path item
Verbs == {"get", "put", "post", "delete", "options", "head", "patch", "trace"}

\* the tag the translator gives the operation of an entry of the path map
tagOfEntry(this, e) ==
    IF this.doc.swagger
    THEN getTagOf(this.config, urlToName(this.config, e.url), e.key, e.operation)
    ELSE firstTag(e.operation)

\* the request items of (url, method), over every group
itemsOf(this, url, method) ==
    {gi \in UNION {{<<g, i>> : i \in 1..Len(this.tags[g].items)} :
                       g \in 1..Len(this.tags)} :
         /\ this.tags[gi[1]].items[gi[2]].url = url
         /\ this.tags[gi[1]].items[gi[2]].method = method}

\* C17: parsePaths takes a key of a path item as an operation iff the key,
\* letter case ignored, is one of the HTTP verbs get, put, post, delete,
\* options, head, patch, trace: every such key that passes the tag filter
\* yields exactly one RequestItem, every other key yields none.
C17_VerbKeysYieldItems ==
    pc = "parsed" =>
        \A n \in 1..Len(Entries(ps.doc.paths)) :
            LET e == Entries(ps.doc.paths)[n] IN
            Cardinality(itemsOf(ps, e.url, e.key)) =
                IF /\ toLowerCase(e.key) \in Verbs
                   /\ validate(ps._tagValidator, tagOfEntry(ps, e))
                THEN 1 ELSE 0

\* C18: after parsePaths, on any document and configuration, no two
\* RequestItems of one tag group have the same name.
C18_NamesUniqueInGroup ==
    pc \in {"parsed", "generated"} =>
        \A g \in 1..Len(ps.tags) :
            \A i, j \in 1..Len(ps.tags[g].items) :
                i # j => ps.tags[g].items[i].name # ps.tags[g].items[j].name

\* the call returned `out` and raised nothing
returns(r, out) == ~r.ps.threw /\ r.out = out

\* C19: in both dialects, parseSchemaItem on an absent or null node returns
\* the empty string and raises nothing; an array schema without `items`
\* translates (to `[]`), and no operation of the pass fails on an absent
\* node.
C19_AbsentNodeIsEmpty ==
    /\ pc \in {"parsing", "awaiting", "parsed"} =>
           /\ returns(parseSchemaItemOf(ps, Null), "")
           /\ returns(parseSchemaItemOf(ps, Prim("array")), "[]")
    /\ pc # "idle" => ~(ps.threw /\ ~ps.overflow)


\* the position at which the bracket opened at position 1 of `type` is
\* closed, 0 when it is not
RECURSIVE closeOfFirst(_, _, _)
closeOfFirst(type, i, depth) ==
    IF i > Len(type) THEN 0
    ELSE IF CharAt(type, i) = "{" THEN closeOfFirst(type, i + 1, depth + 1)
    ELSE IF CharAt(type, i) = "}"
    THEN IF depth = 1 THEN i ELSE closeOfFirst(type, i + 1, depth - 1)
    ELSE closeOfFirst(type, i + 1, depth)

\* a self-contained structural record literal: one `{ ... }` and nothing
\* but white space after it
recordLiteral(type) ==
    /\ startsWith(type, "{")
    /\ closeOfFirst(type, 1, 0) > 0
    /\ \A m \in (closeOfFirst(type, 1, 0) + 1)..Len(type) :
           IsSpace(CharAt(type, m))

\* the declaration of the name N for the type string T
declarationFor(this, N, T) ==
    IF T \in this.refs
    THEN "\ntype " \o N \o " = API." \o pascalCase(this.config.name)
             \o "." \o T \o "\n"
    ELSE IF recordLiteral(T) THEN "\ninterface " \o N \o " " \o T \o "\n"
    ELSE "\ntype " \o N \o " = " \o T \o "\n"

\* the non-empty type strings of a RequestItem with the names they are
\* declared under
declaredTypes(requestItem) ==
    { d \in { [N |-> pascalCase(requestItem.name) \o TYPE_NAME_SUFFIXES.pathParams,
               T |-> requestItem.requestPathType],
              [N |-> pascalCase(requestItem.name) \o TYPE_NAME_SUFFIXES.params,
               T |-> requestItem.requestQueryType],
              [N |-> pascalCase(requestItem.name) \o TYPE_NAME_SUFFIXES.data,
               T |-> requestItem.requestBodyType],
              [N |-> pascalCase(requestItem.name) \o TYPE_NAME_SUFFIXES.res,
               T |-> requestItem.responseType] } : d.T # "" }

\* C24: with no response envelope configured, every non-empty path, query,
\* body and response type string of every RequestItem is declared as
\* `type N = API.<Scope>.<TypeName>` when it is a registered name, as
\* `interface N {...}` when it is a self-contained record literal, and as
\* `type N = ...` otherwise.
C24_DeclarationKindByShape ==
    (pc = "generated" /\ ~ps.config.responseRootInterface.set) =>
        \A g \in 1..Len(ps.tags) : \A i \in 1..Len(ps.tags[g].items) :
            \A d \in declaredTypes(ps.tags[g].items[i]) :
                includes(declarationsOf(ps.tags[g].tag),
                         declarationFor(ps, d.N, d.T))


\* the overrides configured for the item of the override call n
overridesOf(n) ==
    manualTypesOf(ps.config, ps.tags[tasks[n].g].items[tasks[n].i].url,
                  ps.tags[tasks[n].g].items[tasks[n].i].method)

\* C26: every override function of a RequestItem is called with the item
\* as the translator produced it: in the item it is given, no field holds
\* the value that another, literal or data, override of the same item puts
\* there, whatever the key order of the override map.
C26_OverrideSeesTranslatedItem ==
    \A n \in 1..Len(tasks) :
        \A j \in 1..Len(overridesOf(n)) :
            overridesOf(n)[j].t.kind # "function" =>
                tasks[n].observed[overridesOf(n)[j].k]
                    # overrideValue(overridesOf(n)[j].t)


\* the named schemas that are declared and carry a comment
commentedSchemas(this) ==
    {n \in 1..Len(this.doc.schemas) :
         /\ formatSchemaName(this.doc.schemas[n].name) \in this.refs
         /\ getSchemaItemComment(this.doc.schemas[n].node) # ""}

\* C28: in the document-wide declarations the comment of a named schema
\* comes immediately before that schema's own declaration, be it an
\* interface or a type alias.
C28_CommentPrecedesOwnDeclaration ==
    pc = "generated" =>
        \A f \in documentWideWrites : \A n \in commentedSchemas(ps) :
            \/ includes(files[f].content,
                   getSchemaItemComment(ps.doc.schemas[n].node)
                       \o "\ninterface "
                       \o formatSchemaName(ps.doc.schemas[n].name) \o " ")
            \/ includes(files[f].content,
                   getSchemaItemComment(ps.doc.schemas[n].node)
                       \o "\ntype "
                       \o formatSchemaName(ps.doc.schemas[n].name) \o " = ")


\* C29: two references that name different schemas of the schema map are
\* never given the same formatted type name, so that a name always denotes
\* the schema its reference points to.
C29_DistinctSchemasDistinctNames ==
    \A i, j \in 1..Len(ps.resolved) :
        (/\ ps.resolved[i].name # ps.resolved[j].name
         /\ ~SchemaOf(ps.doc, ps.resolved[i].name).nil
         /\ ~SchemaOf(ps.doc, ps.resolved[j].name).nil)
            => ps.resolved[i].typeName # ps.resolved[j].typeName

----------------------------------------------------------------------------
(* Specification of the tag filter: one validator, any number of calls     *)

MaxList == 2

Labels == {"Article", "ARTICLE", "user", "main"}

OptionalLists == {Undefined} \cup {Some(l) : l \in SeqsOf(Labels, 0, MaxList)}

InitTag ==
    /\ \E inc \in OptionalLists, exc \in OptionalLists :
           input = [include |-> inc, exclude |-> exc, tag |-> "",
                    this |-> TagValidator([include |-> inc, exclude |-> exc])]
    /\ output = FALSE
    /\ phase = "ready"
    /\ IdleGen
    /\ IdleBuild

Validate ==
    /\ phase \in {"ready", "returned"}
    /\ \E t \in Labels :
           /\ input' = [input EXCEPT !.tag = t]
           /\ output' = validate(input.this, t)
    /\ phase' = "returned"
    /\ UNCHANGED <<genVars, buildVars>>

NextTag == Validate

SpecTag == InitTag /\ [][NextTag]_vars

\* the label is in the list, letter case ignored
MemberIgnoringCase(list, tag) ==
    \E i \in 1..Len(list) : toLowerCase(list[i]) = toLowerCase(tag)

\* C1, as stated: validate(T) is true iff (I is empty or T is in I) and not
\* (E is non-empty and T is in E), membership ignoring letter case, a list
\* that is not configured being empty.
C1_AcceptsIffEmptyOrListed ==
    phase = "returned" =>
        output = ( /\ \/ input.include.list = <<>>
                      \/ MemberIgnoringCase(input.include.list, input.tag)
                   /\ ~ ( /\ input.exclude.list # <<>>
                          /\ MemberIgnoringCase(input.exclude.list, input.tag) ) )

\* C1, amended: validate(T) is true iff (I is not configured or T is in I)
\* and not (E is configured and T is in E), membership ignoring letter
\* case; and every tag that differs from T only in letter case gets the
\* same result from the same validator.
C1_AcceptsIffUnsetOrListed ==
    phase = "returned" =>
        /\ output = ( /\ \/ ~input.include.set
                         \/ MemberIgnoringCase(input.include.list, input.tag)
                      /\ ~ ( /\ input.exclude.set
                             /\ MemberIgnoringCase(input.exclude.list, input.tag) ) )
        /\ \A other \in Labels :
               toLowerCase(other) = toLowerCase(input.tag)
                   => validate(input.this, other) = output

\* C1: a validator configured with an include list of zero labels has
\* rejected a tag
C1_EmptyIncludeRejected ==
    /\ phase = "returned"
    /\ input.include.set
    /\ input.include.list = <<>>
    /\ output = FALSE

----------------------------------------------------------------------------
(* Specification of the key sanitizer                                      *)

MaxKeyLen == 3

KeyAlphabet == {"a", "B", "1", "_", "$", "-"}

Keys == {concat(cs) : cs \in SeqsOf(KeyAlphabet, 1, MaxKeyLen)}

InitKey ==
    /\ input \in Keys
    /\ output = ""
    /\ phase = "ready"
    /\ IdleGen
    /\ IdleBuild

ToSafePropKey ==
    /\ phase = "ready"
    /\ output' = toSafePropKey(input)
    /\ phase' = "returned"
    /\ UNCHANGED <<input, genVars, buildVars>>

NextKey == ToSafePropKey

SpecKey == InitKey /\ [][NextKey]_vars

\* the pattern as C7 words it: the key starts with a letter, `$` or `_`,
\* and every character after the first is a word character
StartsAsIdentifier(key) ==
    /\ CharAt(key, 1) \in LetterSet \cup {"$", "_"}
    /\ \A i \in 2..Len(key) : IsWordChar(CharAt(key, i))

\* C7: for every non-empty key K, toSafePropKey(K) returns K unchanged iff K
\* starts with a letter, `$` or `_` and contains only word characters, and
\* returns K in single quotes otherwise.
C7_UnchangedIffIdentifier ==
    phase = "returned" =>
        /\ StartsAsIdentifier(input) => output = input
        /\ ~StartsAsIdentifier(input) => output = "'" \o input \o "'"

----------------------------------------------------------------------------
(* Specification of parseSchemaItem on array nodes, in either dialect      *)

TypeList(types) == [Empty EXCEPT !.typeList = types]

\* the item schemas an array is given
ItemNodes(v2) ==
    { Prim("integer"), Prim("string"), Prim("boolean"),
      Enum(<<"a", "b">>), Enum(<<"a">>),
      OneOf(<<Prim("integer"), Prim("string")>>),
      AnyOf(<<RefTo(v2, "User"), Prim("string")>>),
      AllOf(<<RefTo(v2, "User"), Obj(<<Prop("k", Prim("integer"))>>)>>),
      RefTo(v2, "User"), RefTo(v2, "Status"),
      Obj(<<Prop("k", Enum(<<"a", "b">>))>>),
      TypeList(<<"string", "null">>),
      Arr(Enum(<<"a", "b">>)) }

MaxItems == 2

ArrayNodes(v2) ==
    {Arr(item) : item \in ItemNodes(v2)}
    \cup {ArrOfList(list) : list \in SeqsOf(ItemNodes(v2), 1, MaxItems)}
    \cup {Prim("array")}

InitSchema ==
    /\ \E v2 \in BOOLEAN : \E node \in ArrayNodes(v2) :
           input = [this |-> NewParser([swagger |-> v2, schemas |-> Schemas(v2),
                                        paths |-> <<>>], DefaultConfig),
                    schemaItem |-> node]
    /\ output = ""
    /\ phase = "ready"
    /\ IdleGen
    /\ IdleBuild

ParseSchemaItem ==
    /\ phase = "ready"
    /\ \E r \in {parseSchemaItemOf(input.this, input.schemaItem)} :
           output' = [threw |-> r.ps.threw, type |-> r.out]
    /\ phase' = "returned"
    /\ UNCHANGED <<input, genVars, buildVars>>

NextSchema == ParseSchemaItem

SpecSchema == InitSchema /\ [][NextSchema]_vars

\* the item type expression of an array node: the translation of its item
\* schema (without a final line end), the translations of its item schemas
\* joined as a union when it has a sequence of them
itemExpression(this, schemaItem) ==
    IF "itemsList" \in schemaItem.has
    THEN join(parseAll(this, schemaItem.items).out, " | ")
    ELSE stripFinalNewline(parseSchemaItemOf(this, schemaItem.items[1]).out)

\* C6: in both dialects, an array whose item type expression is a union or
\* intersection (it contains `|` or `&`) translates to the item expression
\* in parentheses followed by `[]`.
C6_UnionItemsParenthesized ==
    ( /\ phase = "returned"
      /\ input.schemaItem.has \cap {"items", "itemsList"} # {}
      /\ hasUnionOrIntersection(itemExpression(input.this, input.schemaItem)) )
    => /\ ~output.threw
       /\ output.type
              = "(" \o itemExpression(input.this, input.schemaItem) \o ")[]"

----------------------------------------------------------------------------
(* Specification of ParseSchemasV2.parseParamsSchema on parameter lists    *)

ParamPool ==
    { Param("name", "formData", Prim("string")),
      Param("file", "formData", Prim("file")),
      [Param("n", "formData", Prim("integer")) EXCEPT !.description = "count"],
      Param("q", "query", Prim("string")),
      Param("id", "path", Prim("integer")),
      ParamWithSchema("root", "body", RefTo(TRUE, "User")),
      ParamWithSchema("data", "body", Prim("string")),
      ParamRef("#/parameters/limit") }

MaxParams == 3

InitParams ==
    /\ \E list \in SeqsOf(ParamPool, 0, MaxParams) :
           input = [this |-> NewParser([swagger |-> TRUE, schemas |-> Schemas(TRUE),
                                        paths |-> <<>>], DefaultConfig),
                    operationItem |-> Operation(<<>>, list, NoBody, NoBody)]
    /\ output = ""
    /\ phase = "ready"
    /\ IdleGen
    /\ IdleBuild

ParseParamsSchema ==
    /\ phase = "ready"
    /\ \E r \in {parseParamsSchemaV2(input.this, input.operationItem)} :
           output' = [threw |-> r.ps.threw, paramsSchema |-> r.out]
    /\ phase' = "returned"
    /\ UNCHANGED <<input, genVars, buildVars>>

NextParams == ParseParamsSchema

SpecParams == InitParams /\ [][NextParams]_vars

\* the parameters of the list that are in `location`, in declared order
RECURSIVE paramsIn(_, _)
paramsIn(list, location) ==
    IF Len(list) = 0 THEN <<>>
    ELSE (IF list[1].in = location THEN <<list[1]>> ELSE <<>>)
             \o paramsIn(Tail(list), location)

\* the `name: type` line of a parameter that carries its type itself, the
\* name written as a property key
nameTypeLine(paramItem) ==
    "  " \o toSafePropKey(paramItem.name) \o ": "
         \o (CASE paramItem.self.type = "integer" -> "number"
               [] paramItem.self.type = "file" -> "File"
               [] OTHER -> paramItem.self.type)
         \o (IF paramItem.description # ""
             THEN " // " \o paramItem.description ELSE "")
         \o "\n"

\* C9: in the V2 translator, a parameter list with one or more formData
\* parameters and no body parameter gives the body type `FormData | {`, one
\* `name: type` line per formData parameter in declared order, `}`, and the
\* flag isFormDataBody true; a list with no formData parameter gives the
\* flag false and a body type without the prefix `FormData |`.
C9_FormDataBody ==
    phase = "returned" =>
        LET list == input.operationItem.parameters
            form == paramsIn(list, "formData")
        IN /\ ~output.threw
           /\ (Len(form) > 0 /\ Len(paramsIn(list, "body")) = 0)
                  => /\ output.paramsSchema.isFormDataBody
                     /\ output.paramsSchema.body
                            = "FormData | {\n"
                                  \o concat([i \in 1..Len(form) |-> nameTypeLine(form[i])])
                                  \o "}"
           /\ Len(form) = 0
                  => /\ ~output.paramsSchema.isFormDataBody
                     /\ ~startsWith(output.paramsSchema.body, "FormData |")

\* C9: a list with two formData parameters and no body parameter has been
\* translated
C9_TwoFormDataParameters ==
    /\ phase = "returned"
    /\ Len(paramsIn(input.operationItem.parameters, "formData")) = 2
    /\ Len(paramsIn(input.operationItem.parameters, "body")) = 0
    /\ output.paramsSchema.isFormDataBody

\* the body buffer after the parameters from i on, B being the buffer
\* before them: a formData parameter adds its line (opening the record
\* first), the body named root intersects its translation with B, every
\* other parameter leaves B as it is
RECURSIVE bodyAfter(_, _, _, _)
bodyAfter(this, list, i, B) ==
    IF i > Len(list) THEN B
    ELSE IF list[i].ref # "" THEN bodyAfter(this, list, i + 1, B)
    ELSE IF list[i].in = "formData"
    THEN bodyAfter(this, list, i + 1,
                   (IF B = "" THEN "{\n" ELSE B) \o nameTypeLine(list[i]))
    ELSE IF list[i].in = "body" /\ list[i].name = "root"
    THEN bodyAfter(this, list, i + 1,
                   IF B = "" THEN parseSchemaItemOf(this, list[i].schema).out
                   ELSE B \o " & " \o parseSchemaItemOf(this, list[i].schema).out)
    ELSE bodyAfter(this, list, i + 1, B)

\* C21: in the V2 translator, a body parameter named root with schema S met
\* when the body buffer holds B leaves the buffer equal to the translation
\* of S when B is empty and to `B & <translation of S>` otherwise, B
\* appearing once; and no body parameter is emitted as a field `root: type`.
C21_RootBodyIntersectedOnce ==
    phase = "returned" =>
        LET list == input.operationItem.parameters
            B == bodyAfter(input.this, list, 1, "")
        IN /\ ~output.threw
           /\ output.paramsSchema.body =
                  IF Len(paramsIn(list, "formData")) > 0
                  THEN "FormData | " \o B \o "}" ELSE B
           /\ ~includes(output.paramsSchema.body, "root:")


\* the bracket depth after `type` read from position i at depth `depth`,
\* -1 once a `}` closes nothing
RECURSIVE depthAfter(_, _, _)
depthAfter(type, i, depth) ==
    IF i > Len(type) THEN depth
    ELSE IF CharAt(type, i) = "{" THEN depthAfter(type, i + 1, depth + 1)
    ELSE IF CharAt(type, i) = "}"
    THEN IF depth = 0 THEN -1 ELSE depthAfter(type, i + 1, depth - 1)
    ELSE depthAfter(type, i + 1, depth)

wellBracketed(type) == depthAfter(type, 1, 0) = 0

\* C30: for every list of parameters, the body type that the V2
\* parseParamsSchema returns is empty or well-bracketed (every `{` closed
\* by one `}`, no `}` unmatched), and the path and query types are each
\* empty or of the form `{` lines `}`.
C30_TypesWellBracketed ==
    (phase = "returned" /\ ~output.threw) =>
        /\ wellBracketed(output.paramsSchema.body)
        /\ \A type \in {output.paramsSchema.path, output.paramsSchema.query} :
               type # "" => /\ startsWith(type, "{\n")
                            /\ endsWith(type, "}")
                            /\ wellBracketed(type)

----------------------------------------------------------------------------
(* Specification of buildApi: one task per configured document             *)

MaxDocs == 3

\* a document of options.docs: whether it has a link, and where its task
\* is: "skipped" (no link), "pending" (fetchDoc is in flight), "rejected"
\* (fetchDoc rejected), "generating" (the callback of fetchDoc ran: generate
\* is at `await ps.parsePaths()` and _doc.json is handed to the writer),
\* "generated" (generate went on after the await and handed its files over),
\* "failed" (the promise of generate rejected); whether _doc.json has been
\* handed to the writer, and whether the completion message has been logged
DocTask(link) ==
    [link |-> link, state |-> IF link THEN "pending" ELSE "skipped",
     persisted |-> FALSE, logged |-> FALSE]

\* buildApi has returned: its loop has called fetchDoc for every document
\* that has a link, and nothing has settled yet
InitBuild ==
    /\ \E links \in SeqsOf(BOOLEAN, 1, MaxDocs) :
           docs = [d \in 1..Len(links) |-> DocTask(links[d])]
    /\ process = "running"
    /\ unhandledRejections \in {"throw", "warn"}
    /\ IdleGen
    /\ IdleFn

\* fetchDoc(name, link) fulfils and its callback runs: generate is called
\* (not awaited: it returns its promise at `await ps.parsePaths()`), then
\* _doc.json is handed to the writer and the completion message is logged
FetchFulfilled(d) ==
    /\ process = "running"
    /\ docs[d].state = "pending"
    /\ docs' = [docs EXCEPT ![d].state = "generating",
                            ![d].persisted = TRUE,
                            ![d].logged = TRUE]
    /\ UNCHANGED <<process, unhandledRejections, genVars, fnVars>>

\* fetchDoc(name, link) rejects: the promise of `.then` rejects and nothing
\* handles it
FetchRejected(d) ==
    /\ process = "running"
    /\ docs[d].state = "pending"
    /\ docs' = [docs EXCEPT ![d].state = "rejected"]
    /\ process' = IF unhandledRejections = "throw" THEN "exited" ELSE process
    /\ UNCHANGED <<unhandledRejections, genVars, fnVars>>

\* generate goes on after `await ps.parsePaths()` and hands its files over
GenerateDone(d) ==
    /\ process = "running"
    /\ docs[d].state = "generating"
    /\ docs' = [docs EXCEPT ![d].state = "generated"]
    /\ UNCHANGED <<process, unhandledRejections, genVars, fnVars>>

\* generate throws (in the translator, in an override or in the writer):
\* its promise rejects and nothing handles it
GenerateFailed(d) ==
    /\ process = "running"
    /\ docs[d].state = "generating"
    /\ docs' = [docs EXCEPT ![d].state = "failed"]
    /\ process' = IF unhandledRejections = "throw" THEN "exited" ELSE process
    /\ UNCHANGED <<unhandledRejections, genVars, fnVars>>

NextBuild ==
    \/ \E d \in 1..Len(docs) : FetchFulfilled(d)
    \/ \E d \in 1..Len(docs) : FetchRejected(d)
    \/ \E d \in 1..Len(docs) : GenerateDone(d)
    \/ \E d \in 1..Len(docs) : GenerateFailed(d)

SpecBuild == InitBuild /\ [][NextBuild]_vars

\* nothing of buildApi is left to run
settled ==
    \/ process = "exited"
    \/ \A d \in 1..Len(docs) : docs[d].state \notin {"pending", "generating"}

\* C12: when the fetch of one of several documents fails, every other
\* document that has a link is still fetched, translated, generated and
\* persisted, in any interleaving of the fetch completions: once nothing
\* is left to run, every document with a link other than the ones whose own
\* fetch or own generate failed is generated.
C12_FetchFailureConfined ==
    settled =>
        \A d \in 1..Len(docs) :
            docs[d].link /\ docs[d].state \notin {"rejected", "failed"}
                => docs[d].state = "generated"

\* C27: for each document, the raw copy _doc.json is written and the
\* completion message is logged only after generate for that document has
\* finished, and never when generate for that document fails.
C27_PersistAfterGenerate ==
    \A d \in 1..Len(docs) :
        (docs[d].persisted \/ docs[d].logged) => docs[d].state = "generated"

----------------------------------------------------------------------------
(* Specification of parseSchemaItem on combinator nodes, in either dialect *)

MaxMembers == 2

\* the members a combinator is given: a primitive, a node of no type (it
\* translates to ""), a named schema, an enum
MemberNodes(v2) ==
    { Prim("string"), Empty, RefTo(v2, "User"), Enum(<<"a", "b">>) }

CombinatorKeys == {"allOf", "oneOf", "anyOf"}

\* a node that carries the keys `keys`: the first of them in the order
\* allOf, oneOf, anyOf holds `members`, every other one a single boolean
CombinatorNode(keys, members) ==
    LET first == IF "allOf" \in keys THEN "allOf"
                 ELSE IF "oneOf" \in keys THEN "oneOf" ELSE "anyOf"
        listOf(k) == IF k \notin keys THEN <<>>
                     ELSE IF k = first THEN members
                     ELSE <<Prim("boolean")>>
    IN [Empty EXCEPT !.has = keys,
                     !.allOf = listOf("allOf"),
                     !.oneOf = listOf("oneOf"),
                     !.anyOf = listOf("anyOf")]

InitCombine ==
    /\ \E v2 \in BOOLEAN :
       \E keys \in (SUBSET CombinatorKeys) \ {{}} :
       \E members \in SeqsOf(MemberNodes(v2), 0, MaxMembers) :
           input = [this |-> NewParser([swagger |-> v2, schemas |-> Schemas(v2),
                                        paths |-> <<>>], DefaultConfig),
                    keys |-> keys,
                    members |-> members,
                    schemaItem |-> CombinatorNode(keys, members)]
    /\ output = ""
    /\ phase = "ready"
    /\ IdleGen
    /\ IdleBuild

ParseCombinator ==
    /\ phase = "ready"
    /\ \E r \in {parseSchemaItemOf(input.this, input.schemaItem)} :
           output' = [threw |-> r.ps.threw, type |-> r.out]
    /\ phase' = "returned"
    /\ UNCHANGED <<input, genVars, buildVars>>

NextCombine == ParseCombinator

SpecCombine == InitCombine /\ [][NextCombine]_vars

\* the translations of the members of the first key the node carries, in
\* order, joined with ` & ` for allOf and ` | ` for oneOf and anyOf
joinedMembers ==
    join([m \in 1..Len(input.members) |->
              parseSchemaItemOf(input.this, input.members[m]).out],
         IF "allOf" \in input.keys THEN " & " ELSE " | ")

\* C20, as stated: a combinator node translates to `(m1 op m2 ...) | null`,
\* the translations of its members in order joined with ` & ` for allOf
\* and ` | ` for oneOf and anyOf, whatever the members translate to and
\* whichever of the keys allOf, oneOf, anyOf the node carries.
C20_CombinatorIsNullableGroup ==
    phase = "returned" =>
        /\ ~output.threw
        /\ output.type = "(" \o joinedMembers \o ") | null"

\* C20, amended: the members translated are those of the first key the
\* node carries in the order allOf, oneOf, anyOf; their translations are
\* joined in order with ` & ` for allOf and ` | ` otherwise; the result is
\* `(m1 op m2 ...) | null` when the joined expression is not empty and the
\* empty string when it is empty.
C20_NullableGroupUnlessEmpty ==
    phase = "returned" =>
        /\ ~output.threw
        /\ output.type = IF joinedMembers = "" THEN ""
                         ELSE "(" \o joinedMembers \o ") | null"

\* C20: a node that carries allOf and oneOf, with two members of which one
\* translates to the empty string, has been translated; and so has a node
\* whose only member translates to the empty string
C20_EmptyMemberTranslated ==
    /\ phase = "returned"
    /\ \/ /\ {"allOf", "oneOf"} \subseteq input.keys
          /\ input.members = <<Empty, Prim("string")>>
          /\ output.type = "( & string) | null"
       \/ /\ input.members = <<Empty>>
          /\ output.type = ""

----------------------------------------------------------------------------
(* Specification of parseSchemaItem on objects with additionalProperties   *)

MaxNested == 2

\* the properties nested in an additionalProperties node
NestedProps(v2) ==
    { Prop("k", Prim("integer")), Prop("s", Prim("string")),
      Prop("u", RefTo(v2, "User")) }

\* additionalProperties: "absent", "true", or a schema node: a primitive, a
\* reference, an object without `properties`, an object with up to
\* MaxNested nested properties
AdditionalNodes(v2) ==
    { Prim("string"), RefTo(v2, "User"), Prim("object") }
    \cup { Obj(props) : props \in { l \in SeqsOf(NestedProps(v2), 0, MaxNested) :
                                        \A a, b \in 1..Len(l) :
                                            a # b => l[a].key # l[b].key } }

ObjectNodes == { Obj(<<>>), Obj(<<Prop("id", Prim("integer"))>>) }

InitAdditional ==
    /\ \E v2 \in BOOLEAN, object \in ObjectNodes :
       \E kind \in {"absent", "true", "node"} :
       \E A \in (IF kind = "node" THEN AdditionalNodes(v2) ELSE {Null}) :
           input = [this |-> NewParser([swagger |-> v2, schemas |-> Schemas(v2),
                                        paths |-> <<>>], DefaultConfig),
                    object |-> object,
                    kind |-> kind,
                    additional |-> A,
                    schemaItem |-> IF kind = "absent" THEN object
                                   ELSE IF kind = "true"
                                   THEN WithAdditionalTrue(object)
                                   ELSE WithAdditional(object, A)]
    /\ output = ""
    /\ phase = "ready"
    /\ IdleGen
    /\ IdleBuild

ParseObject ==
    /\ phase = "ready"
    /\ \E r \in {parseSchemaItemOf(input.this, input.schemaItem)} :
           output' = [threw |-> r.ps.threw, type |-> r.out]
    /\ phase' = "returned"
    /\ UNCHANGED <<input, genVars, buildVars>>

NextAdditional == ParseObject

SpecAdditional == InitAdditional /\ [][NextAdditional]_vars

\* the structural record of an object node: `{`, one line per property, `}`
recordOf(this, node) ==
    "{\n"
    \o concat([i \in 1..Len(node.properties) |->
           "  " \o toSafePropKey(node.properties[i].key) \o ": "
                \o parseSchemaItemOf(this, node.properties[i].value).out \o "\n"])
    \o "}\n"

\* C22: an object whose additionalProperties is a schema node A translates
\* in V3 to its record, ` & ` and the full translation of A; in V2 to its
\* record, ` & ` and the record of the properties nested in A, and to the
\* record alone when A has no nested properties.  With
\* additionalProperties true both append ` & {[P:string]: any}`; with it
\* absent both append nothing.
C22_AdditionalPropertiesIntersected ==
    phase = "returned" =>
        /\ ~output.threw
        /\ output.type =
               recordOf(input.this, input.object)
               \o (IF input.kind = "absent" THEN ""
                   ELSE IF input.kind = "true" THEN " & {[P:string]: any}"
                   ELSE IF ~input.this.doc.swagger
                   THEN " & " \o parseSchemaItemOf(input.this, input.additional).out
                   ELSE IF "properties" \in input.additional.has
                           /\ input.additional.properties # <<>>
                   THEN " & " \o recordOf(input.this, input.additional)
                   ELSE "")

----------------------------------------------------------------------------
(* Specification of jsonToType over the values of a JSON response          *)

MaxElems == 2

JsonPrimitives ==
    { JNull, JUndefined, JBool(TRUE), JBool(FALSE), JNum(0), JNum(1),
      JStr(""), JStr("a") }

JsonKeys == { "a", "b-c" }

\* primitives, arrays of up to MaxElems primitives, and objects of up to
\* MaxElems entries with distinct keys
JsonValues ==
    JsonPrimitives
    \cup { JArr(elems) : elems \in SeqsOf(JsonPrimitives, 0, MaxElems) }
    \cup { JObj([i \in 1..Len(ks) |-> [key |-> ks[i], value |-> vs[i]]]) :
             <<ks, vs>> \in
                 { kv \in SeqsOf(JsonKeys, 0, MaxElems)
                              \X SeqsOf(JsonPrimitives, 0, MaxElems) :
                       /\ Len(kv[1]) = Len(kv[2])
                       /\ \A a, b \in 1..Len(kv[1]) :
                              a # b => kv[1][a] # kv[1][b] } }

InitJson ==
    /\ input \in JsonValues
    /\ output = ""
    /\ phase = "ready"
    /\ IdleGen
    /\ IdleBuild

JsonToType ==
    /\ phase = "ready"
    /\ output' = jsonToType(input)
    /\ phase' = "returned"
    /\ UNCHANGED <<input, genVars, buildVars>>

NextJson == JsonToType

SpecJson == InitJson /\ [][NextJson]_vars

\* the type the value of a JSON document is to be given
RECURSIVE typeNameOf(_)
typeNameOf(v) ==
    CASE v.t \in {"null", "undefined"} -> "any"
      [] v.t = "array" ->
             (IF v.elems = <<>> THEN "any" ELSE typeNameOf(v.elems[1])) \o "[]"
      [] v.t = "object" ->
             IF v.entries = <<>> THEN "{[P:string]: any}"
             ELSE "{" \o concat([i \in 1..Len(v.entries) |->
                          toSafePropKey(v.entries[i].key) \o ": "
                            \o typeNameOf(v.entries[i].value) \o ";"])
                      \o "}"
      [] OTHER -> v.t

\* C23: jsonToType(v) is `any` iff v is null or undefined; the type of the
\* first element and `[]` for an array (`any[]` when empty);
\* `{[P:string]: any}` for an object without keys; a record of `key: type;`
\* entries for an object with keys; and `number`, `string` or `boolean` for
\* every primitive, 0, the empty string and false included.
C23_TypeOfEveryValue ==
    phase = "returned" =>
        /\ output = typeNameOf(input)
        /\ (output = "any") <=> (input.t \in {"null", "undefined"})

----------------------------------------------------------------------------
(* Specification of formatURL over URL templates                           *)

MaxSegments == 3

UrlSegments == { "/users", "/x", "/{id}", "/{petId}" }

UrlTemplates == { concat(segs) : segs \in SeqsOf(UrlSegments, 0, MaxSegments) }

UrlOptions ==
    { [DefaultConfig EXCEPT !.removeUrlPrefix = r, !.urlPrefix = u] :
          r \in {"", "/users"}, u \in {"", "/api"} }

InitUrl ==
    /\ input \in [docOptions : UrlOptions, url : UrlTemplates]
    /\ output = ""
    /\ phase = "ready"
    /\ IdleGen
    /\ IdleBuild

FormatURL ==
    /\ phase = "ready"
    /\ output' = formatURL(input.docOptions, input.url)
    /\ phase' = "returned"
    /\ UNCHANGED <<input, genVars, buildVars>>

NextUrl == FormatURL

SpecUrl == InitUrl /\ [][NextUrl]_vars

\* the position of the first `c` of `s` at or after position i, 0 if none
RECURSIVE positionFrom(_, _, _)
positionFrom(s, c, i) ==
    IF i > Len(s) THEN 0
    ELSE IF CharAt(s, i) = c THEN i
    ELSE positionFrom(s, c, i + 1)

\* every `{name}` of the url rewritten on its own
RECURSIVE eachPlaceholderRewritten(_)
eachPlaceholderRewritten(url) ==
    LET open == positionFrom(url, "{", 1)
        close == IF open = 0 THEN 0 ELSE positionFrom(url, "}", open + 2)
    IN IF close = 0 THEN url
       ELSE SubSeq(url, 1, open - 1)
                \o "${options.pathParams." \o SubSeq(url, open + 1, close)
                \o eachPlaceholderRewritten(SubSeq(url, close + 1, Len(url)))

\* C25: formatURL removes removeUrlPrefix when the url starts with it,
\* rewrites each `{name}` placeholder on its own to
\* `${options.pathParams.name}`, leaves all other text unchanged, and
\* prepends urlPrefix, whatever the number of placeholders.
C25_EachPlaceholderRewritten ==
    phase = "returned" =>
        output =
            input.docOptions.urlPrefix
            \o eachPlaceholderRewritten(
                   IF input.docOptions.removeUrlPrefix # ""
                      /\ startsWith(input.url, input.docOptions.removeUrlPrefix)
                   THEN SubSeq(input.url,
                               Len(input.docOptions.removeUrlPrefix) + 1,
                               Len(input.url))
                   ELSE input.url)

====
